---- MODULE Spec2Model ----
(***************************************************************************)
(* A model of fontbench's outline-geometry code:                           *)
(*   - experiments/grayscale/integration.py: the curve evaluators, the     *)
(*     composite Simpson integrator, area_of_paths / occupancy_ratio and   *)
(*     the path-text parser svg_to_paths;                                  *)
(*   - fontbench/utils.py: the normalizer _path_to_svg_path_data and       *)
(*     _layer_to_svg_content.                                              *)
(*                                                                         *)
(* Python floats are modelled as exact rationals <<n, d>> with d > 0 in    *)
(* lowest terms; floating-point rounding is not modelled.  A Python value  *)
(* that is a command string where a float is expected (svg_to_paths does   *)
(* not check) is the pair <<code, 0>>.  A text is a sequence of            *)
(* one-character strings.                                                  *)
(***************************************************************************)
EXTENDS Integers, Sequences, FiniteSets, TLC

VARIABLES
    \* ---- area_of_paths / occupancy_ratio (integration.py:75-118)
    a_paths,      \* argument paths
    a_samples,    \* argument samples_per_segment
    a_pc,         \* "call" | "path" | "seg" | "returned" | "ratio" | "raised"
    a_p,          \* index of the path the for loop is at
    a_i,          \* local i
    a_start,      \* local (x0, y0)
    a_curr,       \* local curr
    a_total,      \* local total
    a_exc,        \* the exception raised, "" when none
    a_width,      \* occupancy_ratio's width_px (0 until the division reads it)
    a_height,     \* occupancy_ratio's height_px (0 until the division reads it)
    a_ratio,      \* occupancy_ratio's return value once a_pc = "ratio"
    \* ---- svg_to_paths (integration.py:121-181)
    s_text,       \* argument svg_code
    s_src,        \* the canonical paths s_text was written from (<<>> when from none)
    s_tokens,     \* local tokens
    s_i,          \* local i
    s_curr_path,  \* local curr_path
    s_paths,      \* local paths, the return value once s_pc = "returned"
    s_pc,         \* "call" | "loop" | "returned" | "raised"
    s_exc,        \* the exception raised, "" when none
    \* ---- _layer_to_svg_content / _path_to_svg_path_data (utils.py:75-134, 215-244)
    n_layer,      \* argument layer: layer.shapes (rotation changes the nodes in place)
    n_ascender,   \* argument ascender
    n_scaling,    \* argument scaling
    n_shape,      \* index of the shape the for loop is at
    n_pc,         \* "call" | "layer" | "rotate" | "scan" | "returned" | "raised"
    n_i,          \* _path_to_svg_path_data's local i
    n_parts,      \* _path_to_svg_path_data's local parts
    n_path_data_parts,  \* local path_data_parts
    n_component_parts,  \* local component_parts
    n_stack,      \* the calls of _layer_to_svg_content waiting for a component's layer
    n_result,     \* the text returned once n_pc = "returned"
    n_exc,        \* the exception raised, "" when none
    \* ---- the extremum scan behind get_outermost_range / get_outermost_strokes
    e_layer,      \* argument layer: layer.shapes
    e_direction,  \* argument direction
    e_pc,         \* "scan" | "returned"
    e_shape,      \* index of the subpath the scan is at
    e_i,          \* index of the node the scan is at
    e_record,     \* the running extremum <<v>>, <<>> while there is none
    e_range,      \* <<least, greatest>> opposite-axis coordinate of the tied nodes
    e_strokes,    \* the closed-out runs, each the opposite-axis coordinates of its nodes
    e_run,        \* the run in progress, <<>> when none
    e_from_start, \* the run in progress began at the subpath's first on-curve node
    e_first,      \* index in e_strokes of the run recorded at the subpath's start, or 0
    \* ---- grayscale / _layer_grayscale_integration (metrics.py:10-17, 35-40)
    g_pc,         \* "svg" | "parse" | "area" | "returned" | "raised"
    g_width,      \* layer.width (0.0 until the division reads it)
    g_height,     \* get_layer_height(layer) (0.0 until the division reads it)
    g_result,     \* the return value once g_pc = "returned"
    g_exc         \* the exception raised, "" when none

areaVars == <<a_paths, a_samples, a_pc, a_p, a_i, a_start, a_curr, a_total,
              a_exc, a_width, a_height, a_ratio>>

parseVars == <<s_text, s_src, s_tokens, s_i, s_curr_path, s_paths, s_pc, s_exc>>

normVars == <<n_layer, n_ascender, n_scaling, n_shape, n_pc, n_i, n_parts,
              n_path_data_parts, n_component_parts, n_stack, n_result, n_exc>>

extremumVars == <<e_layer, e_direction, e_pc, e_shape, e_i, e_record, e_range,
                  e_strokes, e_run, e_from_start, e_first>>

grayVars == <<g_pc, g_width, g_height, g_result, g_exc>>

vars == <<areaVars, parseVars, normVars, extremumVars, grayVars>>

\* what a step of one computation leaves alone: the other computations
AreaFrame == UNCHANGED <<parseVars, normVars, extremumVars, grayVars>>
ParseFrame == UNCHANGED <<areaVars, normVars, extremumVars, grayVars>>
NormFrame == UNCHANGED <<areaVars, parseVars, extremumVars, grayVars>>
ExtremumFrame == UNCHANGED <<areaVars, parseVars, normVars, grayVars>>

-----------------------------------------------------------------------------
(* Bounds of the model.                                                    *)

MaxCoord == 2      \* polygon vertices are drawn from (0..MaxCoord) x (0..MaxCoord)
MaxSamples == 2    \* samples_per_segment is drawn from 0..MaxSamples
MaxDim == 2        \* width_px and height_px are drawn from 1..MaxDim
MaxWords == 4      \* a free-form text for svg_to_paths has at most MaxWords words
MaxNodes == 4      \* a path given to the normalizer has at most MaxNodes nodes
MaxDepth == 2      \* components are nested at most MaxDepth deep
MaxScanNodes == 3  \* a subpath given to the extremum scan has at most MaxScanNodes nodes
MaxRepeats == 3    \* a path is normalized at most MaxRepeats times in a row

-----------------------------------------------------------------------------
(* Exact rational arithmetic standing for Python float arithmetic.         *)

Abs(n) == IF n < 0 THEN -n ELSE n

RECURSIVE GCD(_, _)
GCD(a, b) == IF b = 0 THEN a ELSE GCD(b, a % b)

Norm(n, d) ==
    LET s == IF d < 0 THEN -1 ELSE 1
        g == GCD(Abs(n), Abs(d))
    IN  <<(s * n) \div g, (s * d) \div g>>

R(i) == <<i, 1>>
Zero == R(0)
\* Common factors are divided out before multiplying, to keep the integers
\* small, and an operand that is zero is seen before the arithmetic starts.
RAddOver(p, q, g) == Norm(p[1] * (q[2] \div g) + q[1] * (p[2] \div g), (p[2] \div g) * q[2])
RAdd(p, q) ==
    IF p[1] = 0 THEN Norm(q[1], q[2])
    ELSE IF q[1] = 0 THEN Norm(p[1], p[2])
    ELSE RAddOver(p, q, GCD(p[2], q[2]))
RSub(p, q) == RAdd(p, <<-q[1], q[2]>>)
RMulOver(p, q, g, h) == Norm((p[1] \div g) * (q[1] \div h), (p[2] \div h) * (q[2] \div g))
RMul(p, q) ==
    IF p[1] = 0 \/ q[1] = 0 THEN <<0, 1>>
    ELSE RMulOver(p, q, GCD(Abs(p[1]), q[2]), GCD(Abs(q[1]), p[2]))
RDivOver(p, q, g, h) == Norm((p[1] \div g) * (q[2] \div h), (p[2] \div h) * (q[1] \div g))
RDiv(p, q) ==     \* q # 0
    IF p[1] = 0 /\ q[1] # 0 THEN <<0, 1>>
    ELSE RDivOver(p, q, GCD(Abs(p[1]), Abs(q[1])), GCD(p[2], q[2]))
RAbs(p) == <<Abs(p[1]), p[2]>>
RNeg(p) == <<-p[1], p[2]>>
RPos(p) == p[1] > 0
Half == <<1, 2>>

-----------------------------------------------------------------------------
(* Curve evaluators.  line_xy, quad_xy and cubic_xy return the pair of     *)
(* closures (xy, dxy); here they return the data the closures capture and  *)
(* xy(c, t), dxy(c, t) apply them.                                          *)

line_xy(p0, p1) == [kind |-> "line", p0 |-> p0, c1 |-> p0, c2 |-> p1, p1 |-> p1]
quad_xy(p0, c, p1) == [kind |-> "quad", p0 |-> p0, c1 |-> c, c2 |-> c, p1 |-> p1]
cubic_xy(p0, c1, c2, p1) == [kind |-> "cubic", p0 |-> p0, c1 |-> c1, c2 |-> c2, p1 |-> p1]

line_pos(c, t, k) == RAdd(c.p0[k], RMul(t, RSub(c.p1[k], c.p0[k])))
line_der(c, t, k) == RSub(c.p1[k], c.p0[k])

\* u = 1.0 - t
quad_pos_u(c, t, u, k) ==
    RAdd(RAdd(RMul(RMul(u, u), c.p0[k]),
              RMul(RMul(R(2), RMul(u, t)), c.c1[k])),
         RMul(RMul(t, t), c.p1[k]))
quad_pos(c, t, k) == quad_pos_u(c, t, RSub(R(1), t), k)
quad_der_u(c, t, u, k) ==
    RMul(R(2), RAdd(RMul(u, RSub(c.c1[k], c.p0[k])),
                    RMul(t, RSub(c.p1[k], c.c1[k]))))
quad_der(c, t, k) == quad_der_u(c, t, RSub(R(1), t), k)

\* b0..b3 are the Bernstein weights u2*u, 3*u2*t, 3*u*t2, t2*t
cubic_pos_b(c, b0, b1, b2, b3, k) ==
    RAdd(RAdd(RMul(b0, c.p0[k]), RMul(b1, c.c1[k])),
         RAdd(RMul(b2, c.c2[k]), RMul(b3, c.p1[k])))
cubic_pos_u(c, t, u, u2, t2, k) ==
    cubic_pos_b(c, RMul(u2, u), RMul(R(3), RMul(u2, t)), RMul(R(3), RMul(u, t2)),
                RMul(t2, t), k)
cubic_pos_t(c, t, u, k) == cubic_pos_u(c, t, u, RMul(u, u), RMul(t, t), k)
cubic_pos(c, t, k) == cubic_pos_t(c, t, RSub(R(1), t), k)
cubic_der_u(c, t, u, k) ==
    RMul(R(3),
         RAdd(RAdd(RMul(RSub(c.c1[k], c.p0[k]), RMul(u, u)),
                   RMul(RMul(R(2), RSub(c.c2[k], c.c1[k])), RMul(u, t))),
              RMul(RSub(c.p1[k], c.c2[k]), RMul(t, t))))
cubic_der(c, t, k) == cubic_der_u(c, t, RSub(R(1), t), k)

xy(c, t) ==
    CASE c.kind = "line"  -> <<line_pos(c, t, 1), line_pos(c, t, 2)>>
      [] c.kind = "quad"  -> <<quad_pos(c, t, 1), quad_pos(c, t, 2)>>
      [] c.kind = "cubic" -> <<cubic_pos(c, t, 1), cubic_pos(c, t, 2)>>
dxy(c, t) ==
    CASE c.kind = "line"  -> <<line_der(c, t, 1), line_der(c, t, 2)>>
      [] c.kind = "quad"  -> <<quad_der(c, t, 1), quad_der(c, t, 2)>>
      [] c.kind = "cubic" -> <<cubic_der(c, t, 1), cubic_der(c, t, 2)>>

\* oriented_area_of_segment's closure: x*dy - y*dx at t
x_dy_minus_y_dx(p, d) == RSub(RMul(p[1], d[2]), RMul(p[2], d[1]))
integrand(c, t) == x_dy_minus_y_dx(xy(c, t), dxy(c, t))

-----------------------------------------------------------------------------
(* simpson_integral(f, n).  The result is [exc, val]: exc names the        *)
(* exception raised ("" when the call returns val).                        *)

\* n after "if n % 2: n += 1" (Python's % takes the sign of the divisor, as TLA+'s)
simpson_n(n) == IF n % 2 # 0 THEN n + 1 ELSE n

\* the sum of f(k*h) over the k in from..(n-1) with k % 2 = parity (the exact
\* sum does not depend on the order of the additions; it is split in halves)
RECURSIVE simpson_sum(_, _, _, _, _)
simpson_sum(c, h, from, n, parity) ==
    IF from >= n THEN Zero
    ELSE IF n - from = 1
         THEN (IF from % 2 = parity THEN integrand(c, RMul(R(from), h)) ELSE Zero)
         ELSE RAdd(simpson_sum(c, h, from, (from + n) \div 2, parity),
                   simpson_sum(c, h, (from + n) \div 2, n, parity))

\* (s + 4*odd + 2*even) * h / 3.0
simpson_combine(s, odd, even, h) ==
    RDiv(RMul(RAdd(RAdd(s, RMul(R(4), odd)), RMul(R(2), even)), h), R(3))

\* the body from "h = 1.0 / n" on, n even
simpson_even(c, n, h) ==
    simpson_combine(RAdd(integrand(c, R(0)), integrand(c, R(1))),
                    simpson_sum(c, h, 1, n, 1), simpson_sum(c, h, 1, n, 0), h)

simpson_from(c, n) ==
    IF n = 0
    THEN [exc |-> "ZeroDivisionError", val |-> Zero]
    ELSE [exc |-> "", val |-> simpson_even(c, n, RDiv(R(1), R(n)))]

simpson_integral(c, n) == simpson_from(c, simpson_n(n))

half_of(r) == [exc |-> r.exc, val |-> RMul(Half, r.val)]
oriented_area_unsigned(c, n) == half_of([exc |-> simpson_integral(c, n).exc,
                                          val |-> RAbs(simpson_integral(c, n).val)])
oriented_area_of_segment(c, n) == half_of(simpson_integral(c, n))

-----------------------------------------------------------------------------
(* Paths.  A segment ('M', x, y), ('L', (x, y)), ('Q', (cx, cy, x, y)),    *)
(* ('C', (c1x, c1y, c2x, c2y, x, y)) or ('Z',) is the record               *)
(* [op, a] with a the tuple of its numbers.  Python's path[i] is           *)
(* path[i + 1] here: a_i = 2 is Python's i = 1.                            *)

Seg(op, a) == [op |-> op, a |-> a]
RP(p) == <<R(p[1]), R(p[2])>>
MoveTo(p) == Seg("M", RP(p))
LineTo(p) == Seg("L", RP(p))
QuadTo(c, p) == Seg("Q", RP(c) \o RP(p))
CubicTo(c1, c2, p) == Seg("C", RP(c1) \o RP(c2) \o RP(p))
ClosePath == Seg("Z", <<>>)

\* The polygon with vertex list v as one path: Move, Lines, Close.  With
\* explicit = TRUE the last Line returns to the first vertex before the Close.
PolyPath(v, explicit) ==
    <<MoveTo(v[1])>> \o [i \in 1..(Len(v) - 1) |-> LineTo(v[i + 1])]
        \o (IF explicit THEN <<LineTo(v[1])>> ELSE <<>>) \o <<ClosePath>>

Pts == (0..MaxCoord) \X (0..MaxCoord)

cross(o, a, b) == (a[1] - o[1]) * (b[2] - o[2]) - (a[2] - o[2]) * (b[1] - o[1])
succ(v, i) == IF i = Len(v) THEN 1 ELSE i + 1

\* v lists the vertices of a simple, strictly convex polygon counter-clockwise
\* (clockwise): every other vertex lies strictly left (right) of every edge.
ConvexCCW(v) ==
    \A i \in 1..Len(v) : \A j \in 1..Len(v) \ {i, succ(v, i)} :
        cross(v[i], v[succ(v, i)], v[j]) > 0
ConvexCW(v) ==
    \A i \in 1..Len(v) : \A j \in 1..Len(v) \ {i, succ(v, i)} :
        cross(v[i], v[succ(v, i)], v[j]) < 0

ConvexPolys ==
    {v \in [1..3 -> Pts] \cup [1..4 -> Pts] : ConvexCCW(v) \/ ConvexCW(v)}

\* the shoelace formula: half the sum of x_i*y_(i+1) - x_(i+1)*y_i, cyclically,
\* over a list of rational points
RECURSIVE ShoelaceSum(_, _)
ShoelaceSum(v, i) ==
    IF i > Len(v) THEN Zero
    ELSE RAdd(RSub(RMul(v[i][1], v[succ(v, i)][2]), RMul(v[succ(v, i)][1], v[i][2])),
              ShoelaceSum(v, i + 1))
Shoelace(v) == RMul(Half, ShoelaceSum(v, 1))

\* the spec's example: outer CCW square of side 10, inner CW square of side 4
OuterSquare == <<<<0, 0>>, <<10, 0>>, <<10, 10>>, <<0, 10>>>>
InnerHole == <<<<3, 3>>, <<3, 7>>, <<7, 7>>, <<7, 3>>>>
HoleGlyph == <<PolyPath(OuterSquare, FALSE), PolyPath(InnerHole, FALSE)>>

SamplePolys ==
    {OuterSquare, InnerHole,
     <<<<0, 0>>, <<2, 0>>, <<0, 2>>>>, <<<<0, 0>>, <<0, 2>>, <<2, 0>>>>,
     <<<<1, 1>>, <<4, 1>>, <<4, 3>>, <<1, 3>>>>}

\* outlines with no drawing segment
EmptyOutlines ==
    {<<>>} \cup {<<<<MoveTo(p)>>>> : p \in Pts} \cup {<<<<MoveTo(p), ClosePath>>>> : p \in Pts}
        \cup {<<<<MoveTo(p), ClosePath>>, <<MoveTo(q)>>>> : p \in Pts, q \in {<<1, 2>>}}

CurvedOutlines ==
    {<<<<MoveTo(<<0, 0>>), QuadTo(<<2, 0>>, <<2, 2>>), LineTo(<<0, 2>>), ClosePath>>>>,
     <<<<MoveTo(<<1, 0>>), CubicTo(<<2, 0>>, <<2, 1>>, <<1, 2>>), ClosePath>>>>,
     <<<<MoveTo(<<0, 0>>), LineTo(<<2, 0>>), LineTo(<<2, 2>>)>>>>,
     <<<<MoveTo(<<0, 0>>), LineTo(<<2, 0>>), ClosePath, LineTo(<<1, 1>>), ClosePath>>>>}

MalformedOutlines ==
    {<<<<>>>>, <<<<LineTo(<<1, 1>>), ClosePath>>>>,
     <<<<MoveTo(<<0, 0>>), Seg("X", <<>>)>>>>,
     <<<<MoveTo(<<0, 0>>), LineTo(<<1, 0>>), Seg("A", RP(<<1, 1>>)), ClosePath>>>>}

AreaInputs ==
    {<<PolyPath(v, e)>> : v \in ConvexPolys, e \in BOOLEAN}
        \cup {<<PolyPath(v, FALSE), PolyPath(w, FALSE)>> : v \in SamplePolys, w \in SamplePolys}
        \cup EmptyOutlines \cup CurvedOutlines \cup MalformedOutlines

-----------------------------------------------------------------------------
(* area_of_paths and occupancy_ratio, one action per loop step.            *)

NoPoint == <<Zero, Zero>>

\* the state of an engine that is not the one called
AreaIdle ==
    /\ a_paths = <<>> /\ a_samples = 0 /\ a_pc = "idle" /\ a_p = 0 /\ a_i = 0
    /\ a_start = NoPoint /\ a_curr = NoPoint /\ a_total = Zero
    /\ a_exc = "" /\ a_width = 0 /\ a_height = 0 /\ a_ratio = Zero

ParseIdle ==
    /\ s_text = <<>> /\ s_src = <<>> /\ s_tokens = <<>> /\ s_i = 0
    /\ s_curr_path = <<>> /\ s_paths = <<>> /\ s_pc = "idle" /\ s_exc = ""

NormIdle ==
    /\ n_layer = <<>> /\ n_ascender = Zero /\ n_scaling = Zero /\ n_shape = 0
    /\ n_pc = "idle" /\ n_i = 0 /\ n_parts = <<>> /\ n_path_data_parts = <<>>
    /\ n_component_parts = <<>> /\ n_stack = <<>>
    /\ n_result = <<>> /\ n_exc = ""

ExtremumIdle ==
    /\ e_layer = <<>> /\ e_direction = "" /\ e_pc = "idle" /\ e_shape = 0 /\ e_i = 0
    /\ e_record = <<>> /\ e_range = <<>> /\ e_strokes = <<>>
    /\ e_run = <<>> /\ e_from_start = FALSE /\ e_first = 0

GrayIdle ==
    g_pc = "idle" /\ g_width = Zero /\ g_height = Zero /\ g_result = Zero /\ g_exc = ""

\* the state at "for path in paths", total = 0.0
InitArea ==
    /\ a_paths \in AreaInputs
    /\ a_samples \in 0..MaxSamples
    /\ a_pc = "path" /\ a_p = 1 /\ a_i = 0
    /\ a_start = NoPoint /\ a_curr = NoPoint /\ a_total = Zero
    /\ a_exc = "" /\ a_width = 0 /\ a_height = 0 /\ a_ratio = Zero
    /\ ParseIdle /\ NormIdle /\ ExtremumIdle /\ GrayIdle

AreaRaise(e) ==
    /\ a_pc' = "raised" /\ a_exc' = e
    /\ UNCHANGED <<a_paths, a_samples, a_p, a_i, a_start, a_curr, a_total, a_width, a_height, a_ratio>>

\* "for path in paths" is exhausted: return total
AreaReturn ==
    /\ a_pc = "path" /\ a_p > Len(a_paths)
    /\ a_pc' = "returned"
    /\ UNCHANGED <<a_paths, a_samples, a_p, a_i, a_start, a_curr, a_total, a_exc, a_width, a_height, a_ratio>>
    /\ AreaFrame

\* assert path and path[0][0] == 'M'
StartsWithMove(path) == IF path = <<>> THEN FALSE ELSE path[1].op = "M"

AreaAssertFail ==
    /\ a_pc = "path" /\ a_p <= Len(a_paths)
    /\ ~StartsWithMove(a_paths[a_p])
    /\ AreaRaise("AssertionError")
    /\ AreaFrame

AreaMove ==
    /\ a_pc = "path" /\ a_p <= Len(a_paths)
    /\ StartsWithMove(a_paths[a_p])
    /\ a_start' = <<a_paths[a_p][1].a[1], a_paths[a_p][1].a[2]>>
    /\ a_curr' = a_start'
    /\ a_i' = 2
    /\ a_pc' = "seg"
    /\ UNCHANGED <<a_paths, a_samples, a_p, a_total, a_exc, a_width, a_height, a_ratio>>
    /\ AreaFrame

\* "while i < len(path)" is over: the next path
AreaPathEnd ==
    /\ a_pc = "seg" /\ a_i > Len(a_paths[a_p])
    /\ a_p' = a_p + 1
    /\ a_pc' = "path"
    /\ UNCHANGED <<a_paths, a_samples, a_i, a_start, a_curr, a_total, a_exc, a_width, a_height, a_ratio>>
    /\ AreaFrame

AtSeg(op) == a_pc = "seg" /\ a_i <= Len(a_paths[a_p]) /\ a_paths[a_p][a_i].op = op

\* total += oriented_area_of_segment(xy, dxy, samples_per_segment); curr = end
AreaAccumulate(r, end) ==
    IF r.exc # ""
    THEN AreaRaise(r.exc)
    ELSE /\ a_total' = RAdd(a_total, r.val)
         /\ a_curr' = end
         /\ a_i' = a_i + 1
         /\ UNCHANGED <<a_paths, a_samples, a_pc, a_p, a_start, a_exc, a_width, a_height, a_ratio>>

AreaIntegrate(curve, end) ==
    AreaAccumulate(oriented_area_of_segment(curve, a_samples), end)

AreaLine ==
    /\ AtSeg("L")
    /\ LET a == a_paths[a_p][a_i].a
       IN  AreaIntegrate(line_xy(a_curr, <<a[1], a[2]>>), <<a[1], a[2]>>)
    /\ AreaFrame

AreaQuad ==
    /\ AtSeg("Q")
    /\ LET a == a_paths[a_p][a_i].a
       IN  AreaIntegrate(quad_xy(a_curr, <<a[1], a[2]>>, <<a[3], a[4]>>), <<a[3], a[4]>>)
    /\ AreaFrame

AreaCubic ==
    /\ AtSeg("C")
    /\ LET a == a_paths[a_p][a_i].a
       IN  AreaIntegrate(cubic_xy(a_curr, <<a[1], a[2]>>, <<a[3], a[4]>>, <<a[5], a[6]>>),
                         <<a[5], a[6]>>)
    /\ AreaFrame

\* if curr != (x0, y0)
CloseNeverLine(curr, start) == FALSE
CloseNeedsLine(curr, start) == curr # start

AreaClose ==
    /\ AtSeg("Z")
    /\ IF CloseNeedsLine(a_curr, a_start)
       THEN AreaIntegrate(line_xy(a_curr, a_start), a_start)
       ELSE /\ a_curr' = a_start
            /\ a_i' = a_i + 1
            /\ UNCHANGED <<a_paths, a_samples, a_pc, a_p, a_start, a_total, a_exc, a_width, a_height, a_ratio>>
    /\ AreaFrame

AreaUnknown ==
    /\ a_pc = "seg" /\ a_i <= Len(a_paths[a_p])
    /\ a_paths[a_p][a_i].op \notin {"L", "Q", "C", "Z"}
    /\ AreaRaise("ValueError")
    /\ AreaFrame

\* occupancy_ratio: abs(area_of_paths(...)) / (width_px * height_px).  width_px
\* and height_px are read only here, so they are drawn here.
occupancy_ratio_inverted(area, width_px, height_px) ==
    RSub(R(1), RDiv(RAbs(area), R(width_px * height_px)))
occupancy_ratio(area, width_px, height_px) == RDiv(RAbs(area), R(width_px * height_px))

OccupancyRatio ==
    /\ a_pc = "returned"
    /\ \E w \in 1..MaxDim, h \in 1..MaxDim :
          /\ a_width' = w
          /\ a_height' = h
          /\ a_ratio' = occupancy_ratio(a_total, w, h)
    /\ a_pc' = "ratio"
    /\ UNCHANGED <<a_paths, a_samples, a_p, a_i, a_start, a_curr, a_total, a_exc>>
    /\ AreaFrame

NextArea ==
    \/ AreaReturn \/ AreaAssertFail \/ AreaMove \/ AreaPathEnd
    \/ AreaLine \/ AreaQuad \/ AreaCubic \/ AreaClose \/ AreaUnknown
    \/ OccupancyRatio


-----------------------------------------------------------------------------
(* Texts.  The f-strings of utils.py write a float with Python's repr;     *)
(* svg_to_paths reads numbers back with the regular expression             *)
(* (-?\d*\.?\d+) and float().                                              *)

DigitChars == <<"0", "1", "2", "3", "4", "5", "6", "7", "8", "9">>
IsDigit(c) == \E k \in 1..Len(DigitChars) : DigitChars[k] = c
DigitVal(c) == (CHOOSE k \in 1..Len(DigitChars) : DigitChars[k] = c) - 1

RECURSIVE Pow10(_)
Pow10(k) == IF k = 0 THEN 1 ELSE 10 * Pow10(k - 1)

\* the decimal digits of the natural number m
RECURSIVE IntDigits(_)
IntDigits(m) ==
    IF m < 10 THEN <<DigitChars[m + 1]>>
    ELSE IntDigits(m \div 10) \o <<DigitChars[(m % 10) + 1]>>

RECURSIVE Zeros(_)
Zeros(k) == IF k <= 0 THEN <<>> ELSE <<"0">> \o Zeros(k - 1)

\* the number of decimal places of a rational with denominator d (d divides a
\* power of ten for every value of the model)
RECURSIVE DecimalPlaces(_, _)
DecimalPlaces(d, k) == IF Pow10(k) % d = 0 THEN k ELSE DecimalPlaces(d, k + 1)

\* repr of a positive float with shortest digit string ds and decimal point
\* after decpt digits: fixed notation when -4 < decpt <= 16, else exponent notation
ReprFixed(ds, decpt) ==
    IF decpt <= 0 THEN <<"0", ".">> \o Zeros(-decpt) \o ds
    ELSE IF decpt >= Len(ds) THEN ds \o Zeros(decpt - Len(ds)) \o <<".", "0">>
    ELSE SubSeq(ds, 1, decpt) \o <<".">> \o SubSeq(ds, decpt + 1, Len(ds))
ReprExpDigits(e) == IF e < 10 THEN <<"0">> \o IntDigits(e) ELSE IntDigits(e)
ReprExp(ds, decpt) ==
    <<ds[1]>> \o (IF Len(ds) > 1 THEN <<".">> \o SubSeq(ds, 2, Len(ds)) ELSE <<>>)
        \o <<"e">> \o (IF decpt - 1 < 0 THEN <<"-">> ELSE <<"+">>)
        \o ReprExpDigits(Abs(decpt - 1))
ReprDigits(ds, decpt) ==
    IF decpt > -4 /\ decpt <= 16 THEN ReprFixed(ds, decpt) ELSE ReprExp(ds, decpt)
\* m > 0 is the value times 10^k, k minimal
ReprScaled(m, k) == ReprDigits(IntDigits(m), Len(IntDigits(m)) - k)
ReprPlaces(q, k) == ReprScaled((Abs(q[1]) * Pow10(k)) \div q[2], k)

\* f'{x}' for a float x
FormatFloat(q) ==
    IF q[1] = 0 THEN <<"0", ".", "0">>
    ELSE (IF q[1] < 0 THEN <<"-">> ELSE <<>>) \o ReprPlaces(q, DecimalPlaces(q[2], 0))

\* ' '.join(parts)
RECURSIVE JoinSpace(_)
JoinSpace(parts) ==
    IF parts = <<>> THEN <<>>
    ELSE IF Len(parts) = 1 THEN parts[1]
    ELSE parts[1] \o <<" ">> \o JoinSpace(Tail(parts))

\* the f-strings of _path_to_svg_path_data and _emit_truetype_qspline
FmtPair(x, y) == FormatFloat(x) \o <<" ">> \o FormatFloat(y)
MoveText(p) == <<"M", " ">> \o FmtPair(p[1], p[2])
LineText(p) == <<"L", " ">> \o FmtPair(p[1], p[2])
QuadText(ctrl, end) ==
    <<"Q", " ">> \o FmtPair(ctrl[1], ctrl[2]) \o <<",", " ">> \o FmtPair(end[1], end[2])
CubicText(c1, c2, end) ==
    <<"C", " ">> \o FmtPair(c1[1], c1[2]) \o <<",", " ">> \o FmtPair(c2[1], c2[2])
        \o <<",", " ">> \o FmtPair(end[1], end[2])
CloseText == <<"Z">>

\* the text of one canonical segment, and of a list of canonical paths
SegText(seg) ==
    CASE seg.op = "M" -> MoveText(<<seg.a[1], seg.a[2]>>)
      [] seg.op = "L" -> LineText(<<seg.a[1], seg.a[2]>>)
      [] seg.op = "Q" -> QuadText(<<seg.a[1], seg.a[2]>>, <<seg.a[3], seg.a[4]>>)
      [] seg.op = "C" -> CubicText(<<seg.a[1], seg.a[2]>>, <<seg.a[3], seg.a[4]>>,
                                   <<seg.a[5], seg.a[6]>>)
      [] seg.op = "Z" -> CloseText
PathText(path) == JoinSpace([i \in 1..Len(path) |-> SegText(path[i])])
PathsText(paths) == JoinSpace([k \in 1..Len(paths) |-> PathText(paths[k])])

-----------------------------------------------------------------------------
(* The tokenizer of svg_to_paths: cmd_re.finditer(svg_code).  A command    *)
(* token 'M' is <<code, 0>>; a number token is the rational float(text).   *)

CmdChars == {"M", "L", "Q", "C", "Z"}
CmdCode(c) ==
    CASE c = "M" -> 1 [] c = "L" -> 2 [] c = "Q" -> 3 [] c = "C" -> 4 [] c = "Z" -> 5
CmdTok(c) == <<CmdCode(c), 0>>
IsCmdTok(t) == t[2] = 0

\* the first index >= i of text that holds no digit
RECURSIVE DigitRunEnd(_, _)
DigitRunEnd(text, i) ==
    IF i > Len(text) THEN i
    ELSE IF IsDigit(text[i]) THEN DigitRunEnd(text, i + 1) ELSE i

HasChar(text, i, c) == IF i > Len(text) THEN FALSE ELSE text[i] = c
HasDigit(text, i) == IF i > Len(text) THEN FALSE ELSE IsDigit(text[i])

\* -?\d*\.?\d+ from the digits on: s is the index after the optional '-', d the
\* end of the first digit run.  The index after the match, 0 when there is none.
NumberEndFrom(text, s, d) ==
    IF HasChar(text, d, ".") /\ HasDigit(text, d + 1) THEN DigitRunEnd(text, d + 1)
    ELSE IF d > s THEN d
    ELSE 0
NumberStart(text, i) == IF HasChar(text, i, "-") THEN i + 1 ELSE i
NumberEndAt(text, s) == NumberEndFrom(text, s, DigitRunEnd(text, s))
NumberEnd(text, i) == NumberEndAt(text, NumberStart(text, i))

\* the natural number written by the digits text[i..e-1]
RECURSIVE DigitsVal(_, _, _)
DigitsVal(text, i, e) ==
    IF i >= e THEN 0 ELSE DigitsVal(text, i, e - 1) * 10 + DigitVal(text[e - 1])

\* float(text[i..e-1]) for a match of the number pattern: s is the index after
\* the sign, d the end of the integer digits
FloatParts(text, s, d, e) ==
    IF d < e
    THEN RAdd(R(DigitsVal(text, s, d)), Norm(DigitsVal(text, d + 1, e), Pow10(e - d - 1)))
    ELSE R(DigitsVal(text, s, e))
FloatSigned(text, i, s, e) ==
    IF s > i THEN RNeg(FloatParts(text, s, DigitRunEnd(text, s), e))
    ELSE FloatParts(text, s, DigitRunEnd(text, s), e)
ParseFloat(text, i, e) == FloatSigned(text, i, NumberStart(text, i), e)

\* finditer goes on to the next index where the pattern matches: the first
\* index >= i that holds a command or starts a number, Len(text) + 1 when none
MatchesAt(text, j) == text[j] \in CmdChars \/ NumberEnd(text, j) # 0
NextMatch(text, i) ==
    IF \E j \in i..Len(text) : MatchesAt(text, j)
    THEN CHOOSE j \in i..Len(text) :
            MatchesAt(text, j) /\ \A k \in i..(j - 1) : ~MatchesAt(text, k)
    ELSE Len(text) + 1

\* the tokens of the next k matches from index i on, followed by <<j>>, j the
\* index where the search goes on (the tokens are taken k at a time so that no
\* evaluation nests once per token of a long text)
RECURSIVE TokenizeSome(_, _, _)
TokenizeNumber(text, i, e, k) ==
    IF e = 0 THEN TokenizeSome(text, NextMatch(text, i + 1), k)
    ELSE <<ParseFloat(text, i, e)>> \o TokenizeSome(text, e, k - 1)
TokenizeSome(text, i, k) ==
    IF i > Len(text) \/ k = 0 THEN <<<<i>>>>
    ELSE IF text[i] \in CmdChars THEN <<CmdTok(text[i])>> \o TokenizeSome(text, i + 1, k - 1)
    ELSE TokenizeNumber(text, i, NumberEnd(text, i), k)

\* for m in cmd_re.finditer(svg_code): tokens.append(...)
RECURSIVE Tokenize(_, _)
Tokenize(text, i) ==
    IF i > Len(text) THEN <<>>
    ELSE SubSeq(TokenizeSome(text, i, 8), 1, Len(TokenizeSome(text, i, 8)) - 1)
            \o Tokenize(text, TokenizeSome(text, i, 8)[Len(TokenizeSome(text, i, 8))][1])

-----------------------------------------------------------------------------
(* svg_to_paths, one action per iteration of "while i < n".  Python's      *)
(* tokens[i] is s_tokens[s_i] with s_i = i + 1.                            *)

\* coordinate values of the canonical paths that are written and read back
CoordVals == {R(0), R(1), R(-2), R(10), <<1, 2>>, <<-5, 4>>, <<1, 10000>>, <<1, 100000>>}

\* canonical paths (Move, Line/Quad/Cubic segments, Close) over two values
CanonicalOver(v, w) ==
    {<<<<Seg("M", <<v, w>>), Seg("L", <<w, v>>), Seg("L", <<R(1), w>>), ClosePath>>>>,
     <<<<Seg("M", <<R(0), v>>), Seg("Q", <<v, w, R(10), w>>), Seg("L", <<w, R(0)>>), ClosePath>>>>,
     <<<<Seg("M", <<w, R(1)>>), Seg("C", <<R(0), v, w, w, v, R(-2)>>), ClosePath>>>>,
     <<<<Seg("M", <<v, v>>), Seg("L", <<R(1), w>>), ClosePath>>,
       <<Seg("M", <<w, w>>), Seg("Q", <<R(0), R(1), v, w>>), Seg("C", <<v, R(1), w, R(0), v, v>>),
         ClosePath>>>>}
CanonicalPaths == UNION {CanonicalOver(v, w) : v \in CoordVals, w \in CoordVals}

\* other texts: MaxWords or fewer words, separated by spaces
Words == {<<"M">>, <<"L">>, <<"Z">>, <<"z">>, <<"l">>, <<"H">>, <<"0">>, <<"1", ".", "5">>}
WordTexts == UNION {{JoinSpace(ws) : ws \in [1..k -> Words]} : k \in 1..MaxWords}

\* the call svg_to_paths(svg_code): either the text written for canonical paths
\* (s_src, kept to compare with) or one of the other texts (s_src empty)
InitParse ==
    /\ \/ /\ s_src \in CanonicalPaths
          /\ s_text = PathsText(s_src)
       \/ /\ s_src = <<>>
          /\ s_text \in WordTexts
    /\ s_tokens = <<>> /\ s_i = 0 /\ s_curr_path = <<>> /\ s_paths = <<>>
    /\ s_pc = "call" /\ s_exc = ""
    /\ AreaIdle /\ NormIdle /\ ExtremumIdle /\ GrayIdle

\* tokens = [...]; paths = []; i = 0; curr_path = []
ParseTokenize ==
    /\ s_pc = "call"
    /\ s_tokens' = Tokenize(s_text, 1)
    /\ s_i' = 1
    /\ s_pc' = "loop"
    /\ UNCHANGED <<s_text, s_src, s_curr_path, s_paths, s_exc>>
    /\ ParseFrame

ParseRaise(e) ==
    /\ s_pc' = "raised" /\ s_exc' = e
    /\ UNCHANGED <<s_text, s_src, s_tokens, s_i, s_curr_path, s_paths>>

AtTok(c) == s_pc = "loop" /\ s_i <= Len(s_tokens) /\ s_tokens[s_i] = CmdTok(c)

\* the tokens a command reads after itself
Arity(c) == CASE c = "M" -> 2 [] c = "L" -> 2 [] c = "Q" -> 4 [] c = "C" -> 6 [] c = "Z" -> 0
Args(k) == SubSeq(s_tokens, s_i + 1, s_i + k)

\* tokens[i+k] past the end of the list
ParseIndexError ==
    /\ \E c \in {"M", "L", "Q", "C"} : AtTok(c) /\ s_i + Arity(c) > Len(s_tokens)
    /\ ParseRaise("IndexError")
    /\ ParseFrame

ParseM ==
    /\ AtTok("M") /\ s_i + Arity("M") <= Len(s_tokens)
    /\ s_paths' = IF s_curr_path # <<>> THEN Append(s_paths, s_curr_path) ELSE s_paths
    /\ s_curr_path' = <<Seg("M", Args(2))>>
    /\ s_i' = s_i + 3
    /\ UNCHANGED <<s_text, s_src, s_tokens, s_pc, s_exc>>
    /\ ParseFrame

ParseAppend(c) ==
    /\ AtTok(c) /\ s_i + Arity(c) <= Len(s_tokens)
    /\ s_curr_path' = Append(s_curr_path, Seg(c, Args(Arity(c))))
    /\ s_i' = s_i + Arity(c) + 1
    /\ UNCHANGED <<s_text, s_src, s_tokens, s_paths, s_pc, s_exc>>

ParseL == ParseAppend("L") /\ ParseFrame
ParseC == ParseAppend("C") /\ ParseFrame
ParseQ == ParseAppend("Q") /\ ParseFrame
ParseZ == ParseAppend("Z") /\ ParseFrame

\* else: raise ValueError(f"Unexpected token in path: {t}")
ParseUnexpected ==
    /\ s_pc = "loop" /\ s_i <= Len(s_tokens)
    /\ ~IsCmdTok(s_tokens[s_i])
    /\ ParseRaise("ValueError")
    /\ ParseFrame

\* the loop is over: if curr_path: paths.append(curr_path); return paths
ParseReturn ==
    /\ s_pc = "loop" /\ s_i > Len(s_tokens)
    /\ s_paths' = IF s_curr_path # <<>> THEN Append(s_paths, s_curr_path) ELSE s_paths
    /\ s_pc' = "returned"
    /\ UNCHANGED <<s_text, s_src, s_tokens, s_i, s_curr_path, s_exc>>
    /\ ParseFrame

NextParse ==
    \/ ParseTokenize \/ ParseIndexError \/ ParseM \/ ParseL \/ ParseC \/ ParseQ \/ ParseZ
    \/ ParseUnexpected \/ ParseReturn



-----------------------------------------------------------------------------
(* The normalizer: _path_to_svg_path_data and _layer_to_svg_content of     *)
(* utils.py.  A GSNode is [type, pos]; a GSPath shape is                   *)
(* [kind |-> "path", nodes |-> <<...>>].  Python's path.nodes[i] is        *)
(* nodes[i + 1] here: n_i = 1 is Python's i = 0.                           *)

LINE == "line"
CURVE == "curve"
QCURVE == "qcurve"
OFFCURVE == "offcurve"
NodeTypes == {LINE, CURVE, QCURVE, OFFCURVE}

Node(type, p) == [type |-> type, pos |-> RP(p)]
\* a shape of a layer: a GSPath (its nodes, its closed flag), a GSComponent (the
\* layer it refers to when it resolves one, its transform) or anything else
Shape(kind, nodes, closed, resolved, layer, transform) ==
    [kind |-> kind, nodes |-> nodes, closed |-> closed, resolved |-> resolved,
     layer |-> layer, transform |-> transform]
PathShape(nodes) == Shape("path", nodes, TRUE, FALSE, <<>>, <<>>)
OpenPathShape(nodes) == Shape("path", nodes, FALSE, FALSE, <<>>, <<>>)
OtherShape == Shape("anchor", <<>>, FALSE, FALSE, <<>>, <<>>)

\* svg_coords = lambda node: (x * scaling, (ascender - y) * scaling)
svg_point_y_unscaled(p, ascender, scaling) ==
    <<RMul(p[1], scaling), RSub(ascender, p[2])>>
svg_point(p, ascender, scaling) ==
    <<RMul(p[1], scaling), RMul(RSub(ascender, p[2]), scaling)>>
svg_coords(node, ascender, scaling) == svg_point(node.pos, ascender, scaling)

\* node.nextNode: the next node of the closed path, cyclically
NextIndex(nodes, i) == IF i = Len(nodes) THEN 1 ELSE i + 1

\* path.nodes.insert(0, path.nodes.pop(-1))
RotateLastToSecond(nodes) ==
    IF Len(nodes) < 2 THEN nodes
    ELSE <<nodes[1], nodes[Len(nodes)]>> \o SubSeq(nodes, 2, Len(nodes) - 1)
RotateLastToFront(nodes) == <<nodes[Len(nodes)]>> \o SubSeq(nodes, 1, Len(nodes) - 1)

\* offcurves = [node]; endpoint = node.nextNode; while endpoint.type == OFFCURVE: ...
\* the number of nodes collected from index i on; it ends because the scan runs
\* only once the last node is on-curve
RECURSIVE OffcurveRun(_, _)
OffcurveRun(nodes, i) ==
    IF nodes[NextIndex(nodes, i)].type = OFFCURVE
    THEN 1 + OffcurveRun(nodes, NextIndex(nodes, i))
    ELSE 1

\* the nodes' index of the endpoint of the run of k off-curve nodes from i
RECURSIVE Advance(_, _, _)
Advance(nodes, i, k) == IF k = 0 THEN i ELSE Advance(nodes, NextIndex(nodes, i), k - 1)

\* mid_x = (offcurve.x + next_off.x) / 2, mid_y likewise
MidpointNotHalved(p, q) == <<RAdd(p[1], q[1]), RAdd(p[2], q[2])>>
Midpoint(p, q) == <<RDiv(RAdd(p[1], q[1]), R(2)), RDiv(RAdd(p[2], q[2]), R(2))>>

\* _emit_truetype_qspline: the parts, one per off-curve node
RECURSIVE QSplineParts(_, _, _, _, _)
QSplineParts(offcurves, k, endpoint, ascender, scaling) ==
    IF k > Len(offcurves) THEN <<>>
    ELSE <<QuadText(svg_coords(offcurves[k], ascender, scaling),
                    IF k < Len(offcurves)
                    THEN svg_point(Midpoint(offcurves[k].pos, offcurves[k + 1].pos),
                                   ascender, scaling)
                    ELSE svg_coords(endpoint, ascender, scaling))>>
         \o QSplineParts(offcurves, k + 1, endpoint, ascender, scaling)
emit_truetype_qspline(offcurves, endpoint, ascender, scaling) ==
    JoinSpace(QSplineParts(offcurves, 1, endpoint, ascender, scaling))

\* the part appended for a single off-curve node and its endpoint
EmitQuadSwapped(node, endpoint, ascender, scaling) ==
    QuadText(svg_coords(endpoint, ascender, scaling), svg_coords(node, ascender, scaling))
EmitQuad(node, endpoint, ascender, scaling) ==
    QuadText(svg_coords(node, ascender, scaling), svg_coords(endpoint, ascender, scaling))

\* the part appended for two off-curve nodes and a CURVE endpoint
EmitCubic(c1, c2, endpoint, ascender, scaling) ==
    CubicText(svg_coords(c1, ascender, scaling), svg_coords(c2, ascender, scaling),
              svg_coords(endpoint, ascender, scaling))

\* the part appended for a LINE node
EmitLineNoFlip(node, ascender, scaling) ==
    LineText(<<RMul(node.pos[1], scaling), RMul(node.pos[2], scaling)>>)
EmitLine(node, ascender, scaling) == LineText(svg_coords(node, ascender, scaling))

\* f'<path d="{' '.join(path_data_parts)}"/>'
PathElement(path_data_parts) ==
    <<"<", "p", "a", "t", "h", " ", "d", "=", "\"">> \o JoinSpace(path_data_parts)
        \o <<"\"", "/", ">">>

\* text of the characters of a sequence of texts, one after the other
RECURSIVE Concat(_)
Concat(texts) == IF texts = <<>> THEN <<>> ELSE texts[1] \o Concat(Tail(texts))
RECURSIVE JoinComma(_)
JoinComma(texts) ==
    IF texts = <<>> THEN <<>>
    ELSE IF Len(texts) = 1 THEN texts[1]
    ELSE texts[1] \o <<",", " ">> \o JoinComma(Tail(texts))

\* f'{-v}' of a float v: the negation of 0.0 is written '-0.0'
FormatNegated(v) == IF v = Zero THEN <<"-", "0", ".", "0">> ELSE FormatFloat(RNeg(v))
\* f'{-y * scaling}': -y is taken first, -0.0 times a positive scaling is -0.0
FormatNegatedTimes(y, scaling) ==
    IF y = Zero /\ RPos(scaling) THEN <<"-", "0", ".", "0">>
    ELSE FormatFloat(RMul(RNeg(y), scaling))

\* f'matrix({a}, {-b}, {-c}, {d}, {x * scaling}, {-y * scaling})'
MatrixText(t, scaling) ==
    <<"m", "a", "t", "r", "i", "x", "(">>
        \o JoinComma(<<FormatFloat(t[1]), FormatNegated(t[2]), FormatNegated(t[3]),
                       FormatFloat(t[4]), FormatFloat(RMul(t[5], scaling)),
                       FormatNegatedTimes(t[6], scaling)>>)
        \o <<")">>

\* f'<g transform="{' '.join(transforms)}">{component_svg_content}</g>'
ComponentText(t, scaling, content) ==
    <<"<", "g", " ", "t", "r", "a", "n", "s", "f", "o", "r", "m", "=", "\"">>
        \o MatrixText(t, scaling) \o <<"\"", ">">> \o content \o <<"<", "/", "g", ">">>

\* what _layer_to_svg_content returns for its path_data_parts and component_parts
LayerContent(path_data_parts, component_parts) ==
    IF component_parts = <<>> THEN PathElement(path_data_parts)
    ELSE IF path_data_parts # <<>>
    THEN PathElement(path_data_parts) \o Concat(component_parts)
    ELSE Concat(component_parts)

\* a GSComponent with its transform (a, b, c, d, x, y) and the layer of the glyph
\* it names; one that names no glyph has no layer
ComponentShape(t, layer) == Shape("component", <<>>, FALSE, TRUE, layer, t)
UnresolvedComponent == Shape("component", <<>>, FALSE, FALSE, <<>>, <<>>)

\* node positions: the k-th node of a path lies at NodePoints[k]
NodePoints == <<<<0, 0>>, <<4, 0>>, <<6, 2>>, <<4, 6>>, <<0, 4>>, <<2, 2>>, <<1, 5>>>>
NodesOfTypes(types) == [k \in 1..Len(types) |-> Node(types[k], NodePoints[k])]

\* every closed path of 1..MaxNodes nodes, whatever the mix of node types
AnyPaths ==
    UNION {{PathShape(NodesOfTypes(types)) : types \in [1..n -> NodeTypes]} : n \in 1..MaxNodes}

\* some paths to stand beside another one in a layer
SamplePaths ==
    {PathShape(NodesOfTypes(<<LINE, LINE, LINE>>)),
     PathShape(NodesOfTypes(<<LINE, OFFCURVE, QCURVE>>)),
     PathShape(NodesOfTypes(<<OFFCURVE, OFFCURVE, CURVE, LINE>>)),
     PathShape(NodesOfTypes(<<OFFCURVE, OFFCURVE, OFFCURVE, CURVE>>)),
     PathShape(NodesOfTypes(<<OFFCURVE, CURVE, LINE>>))}

\* open paths: GSPath.closed is False
OpenPaths ==
    {OpenPathShape(NodesOfTypes(<<LINE, LINE, LINE>>)),
     OpenPathShape(NodesOfTypes(<<LINE, OFFCURVE, OFFCURVE, CURVE>>)),
     OpenPathShape(NodesOfTypes(<<LINE, LINE, OFFCURVE>>))}

\* transforms: a translation, a scaling by 2, a skew with a translation
Translate == <<R(1), R(0), R(0), R(1), R(2), R(1)>>
ScaleTwice == <<R(2), R(0), R(0), R(2), R(0), R(0)>>
Skew == <<R(1), R(0), R(1), R(1), R(0), R(3)>>
Transforms == {Translate, ScaleTwice, Skew}

LinePath == PathShape(NodesOfTypes(<<LINE, LINE, LINE>>))
CubicPath == PathShape(NodesOfTypes(<<CURVE, LINE, OFFCURVE, OFFCURVE>>))
ReferencedLayers == {<<LinePath>>, <<CubicPath>>}

\* a layer under d components, one inside the other
RECURSIVE Nest(_, _)
Nest(layer, d) == IF d = 0 THEN layer ELSE <<ComponentShape(Translate, Nest(layer, d - 1))>>

ComponentLayers ==
    {<<ComponentShape(t, l)>> : t \in Transforms, l \in ReferencedLayers}
        \cup {<<LinePath, ComponentShape(Translate, <<CubicPath>>)>>,
              <<ComponentShape(Skew, <<CubicPath>>), LinePath>>,
              <<ComponentShape(Translate, <<LinePath>>), ComponentShape(ScaleTwice, <<LinePath>>)>>,
              <<ComponentShape(Translate, <<LinePath, ComponentShape(ScaleTwice, <<CubicPath>>)>>)>>}
        \cup {Nest(<<LinePath>>, d) : d \in 1..MaxDepth}
        \cup {Nest(<<UnresolvedComponent>>, d) : d \in 0..MaxDepth}
        \cup {Nest(<<LinePath, UnresolvedComponent>>, d) : d \in 0..MaxDepth}
        \cup {Nest(<<UnresolvedComponent, CubicPath>>, d) : d \in 0..MaxDepth}
        \cup {<<ComponentShape(Translate, <<LinePath>>), UnresolvedComponent>>,
              <<UnresolvedComponent, ComponentShape(Translate, <<LinePath>>)>>,
              <<PathShape(NodesOfTypes(<<OFFCURVE, OFFCURVE, OFFCURVE, CURVE>>)),
                UnresolvedComponent>>,
              <<PathShape(NodesOfTypes(<<OFFCURVE, OFFCURVE, OFFCURVE>>)),
                UnresolvedComponent>>}

NormLayers ==
    ComponentLayers \cup
    {<<p>> : p \in AnyPaths}
        \cup {<<p, q>> : p \in SamplePaths, q \in SamplePaths}
        \cup {<<>>, <<OtherShape>>, <<PathShape(<<>>)>>}
        \cup {<<p>> : p \in OpenPaths}
        \cup {<<PathShape(NodesOfTypes(<<LINE, LINE, LINE>>)), p>> : p \in OpenPaths}

\* the call layer_to_svg(layer, scaling, full_svg=False); n_ascender is
\* layer.master.ascender
InitNorm ==
    /\ n_layer \in NormLayers
    /\ n_ascender \in {R(8), R(10)}
    /\ n_scaling \in {R(1), Half, Zero, R(-1)}
    /\ n_shape = 1
    /\ n_pc = "call" /\ n_i = 0 /\ n_parts = <<>> /\ n_path_data_parts = <<>>
    /\ n_component_parts = <<>> /\ n_stack = <<>>
    /\ n_result = <<>> /\ n_exc = ""
    /\ AreaIdle /\ ParseIdle /\ ExtremumIdle /\ GrayIdle

\* a call of _layer_to_svg_content that waits for a component's layer
Frame(layer, shape, path_data_parts, component_parts) ==
    [layer |-> layer, shape |-> shape, path_data_parts |-> path_data_parts,
     component_parts |-> component_parts]
Caller == n_stack[Len(n_stack)]

NormRaise(e) ==
    /\ n_pc' = "raised" /\ n_exc' = e
    /\ UNCHANGED <<n_layer, n_ascender, n_scaling, n_shape, n_i, n_parts,
                   n_path_data_parts, n_component_parts, n_stack, n_result>>

Nodes == n_layer[n_shape].nodes

\* assert scaling > 0.0
ScalingNotNegative(scaling) == scaling = Zero \/ RPos(scaling)
ScalingPositive(scaling) == RPos(scaling)

\* the assertion fails
SvgAssertFail ==
    /\ n_pc = "call" /\ ~ScalingPositive(n_scaling)
    /\ NormRaise("AssertionError")
    /\ NormFrame

\* the assertion holds: width, ascender and height are read and
\* _layer_to_svg_content(layer, ascender, scaling) is called
SvgCall ==
    /\ n_pc = "call" /\ ScalingPositive(n_scaling)
    /\ n_pc' = "layer"
    /\ UNCHANGED <<n_layer, n_ascender, n_scaling, n_shape, n_i, n_parts,
                   n_path_data_parts, n_component_parts, n_stack, n_result, n_exc>>
    /\ NormFrame

\* the loop over layer.shapes of the outermost call is over: the content is
\* returned to layer_to_svg, which returns it as it is (full_svg is False)
LayerReturn ==
    /\ n_pc = "layer" /\ n_shape > Len(n_layer) /\ n_stack = <<>>
    /\ n_result' = LayerContent(n_path_data_parts, n_component_parts)
    /\ n_pc' = "returned"
    /\ UNCHANGED <<n_layer, n_ascender, n_scaling, n_shape, n_i, n_parts,
                   n_path_data_parts, n_component_parts, n_stack, n_exc>>
    /\ NormFrame

\* isinstance(shape, GSComponent), and the component has a layer: call
\* _layer_to_svg_content(referenced_layer, ascender, scaling)
LayerComponent ==
    /\ n_pc = "layer" /\ n_shape <= Len(n_layer)
    /\ n_layer[n_shape].kind = "component" /\ n_layer[n_shape].resolved
    /\ n_stack' = Append(n_stack, Frame(n_layer, n_shape, n_path_data_parts,
                                        n_component_parts))
    /\ n_layer' = n_layer[n_shape].layer
    /\ n_shape' = 1
    /\ n_path_data_parts' = <<>>
    /\ n_component_parts' = <<>>
    /\ UNCHANGED <<n_ascender, n_scaling, n_pc, n_i, n_parts, n_result, n_exc>>
    /\ NormFrame

\* if referenced_layer is None: raise ValueError
ComponentNoLayer ==
    /\ n_pc = "layer" /\ n_shape <= Len(n_layer)
    /\ n_layer[n_shape].kind = "component" /\ ~n_layer[n_shape].resolved
    /\ NormRaise("ValueError")
    /\ NormFrame

\* the loop over the shapes of a component's layer is over: its content comes
\* back to _component_to_svg_content, which wraps it in the <g> element, and
\* the caller appends that to its component_parts and goes on to its next shape
ComponentReturn ==
    /\ n_pc = "layer" /\ n_shape > Len(n_layer) /\ n_stack # <<>>
    /\ n_component_parts' =
          Append(Caller.component_parts,
                 ComponentText(Caller.layer[Caller.shape].transform, n_scaling,
                               LayerContent(n_path_data_parts, n_component_parts)))
    /\ n_layer' = [Caller.layer EXCEPT ![Caller.shape].layer = n_layer]
    /\ n_shape' = Caller.shape + 1
    /\ n_path_data_parts' = Caller.path_data_parts
    /\ n_stack' = SubSeq(n_stack, 1, Len(n_stack) - 1)
    /\ UNCHANGED <<n_ascender, n_scaling, n_pc, n_i, n_parts, n_result, n_exc>>
    /\ NormFrame

\* isinstance(shape, GSPath): call _path_to_svg_path_data(shape, ascender, scaling)
LayerPath ==
    /\ n_pc = "layer" /\ n_shape <= Len(n_layer)
    /\ n_layer[n_shape].kind = "path"
    /\ n_pc' = "rotate"
    /\ UNCHANGED <<n_layer, n_ascender, n_scaling, n_shape, n_i, n_parts,
                   n_path_data_parts, n_component_parts, n_stack, n_result, n_exc>>
    /\ NormFrame

\* else: raise ValueError(f'Unexpected shape: {shape}')
LayerUnexpectedShape ==
    /\ n_pc = "layer" /\ n_shape <= Len(n_layer)
    /\ n_layer[n_shape].kind \notin {"path", "component"}
    /\ NormRaise("ValueError")
    /\ NormFrame

LastIsOffcurve(nodes) == IF nodes = <<>> THEN FALSE ELSE nodes[Len(nodes)].type = OFFCURVE

\* path.nodes[-1] on a path without nodes
PathNoNodes ==
    /\ n_pc = "rotate" /\ Nodes = <<>>
    /\ NormRaise("IndexError")
    /\ NormFrame

\* while path.nodes[-1].type == OFFCURVE: one rotation, in place
PathRotate ==
    /\ n_pc = "rotate" /\ LastIsOffcurve(Nodes)
    /\ n_layer' = [n_layer EXCEPT ![n_shape].nodes = RotateLastToFront(@)]
    /\ UNCHANGED <<n_ascender, n_scaling, n_shape, n_pc, n_i, n_parts,
                   n_path_data_parts, n_component_parts, n_stack, n_result, n_exc>>
    /\ NormFrame

\* start = svg_coords(path.nodes[-1]); parts = [f'M ...']; i = 0
PathStartAtFirstNode ==
    /\ n_pc = "rotate" /\ Nodes # <<>> /\ ~LastIsOffcurve(Nodes)
    /\ n_parts' = <<MoveText(svg_coords(Nodes[1], n_ascender, n_scaling))>>
    /\ n_i' = 1
    /\ n_pc' = "scan"
    /\ UNCHANGED <<n_layer, n_ascender, n_scaling, n_shape, n_path_data_parts,
                   n_component_parts, n_stack, n_result, n_exc>>
    /\ NormFrame
PathStart ==
    /\ n_pc = "rotate" /\ Nodes # <<>> /\ ~LastIsOffcurve(Nodes)
    /\ n_parts' = <<MoveText(svg_coords(Nodes[Len(Nodes)], n_ascender, n_scaling))>>
    /\ n_i' = 1
    /\ n_pc' = "scan"
    /\ UNCHANGED <<n_layer, n_ascender, n_scaling, n_shape, n_path_data_parts,
                   n_component_parts, n_stack, n_result, n_exc>>
    /\ NormFrame

AtNode(types) == n_pc = "scan" /\ n_i <= Len(Nodes) /\ Nodes[n_i].type \in types

ScanEmit(part, step) ==
    /\ n_parts' = Append(n_parts, part)
    /\ n_i' = n_i + step
    /\ UNCHANGED <<n_layer, n_ascender, n_scaling, n_shape, n_pc, n_path_data_parts,
                   n_component_parts, n_stack, n_result, n_exc>>

\* if node.type == LINE
ScanLine ==
    /\ AtNode({LINE})
    /\ ScanEmit(EmitLine(Nodes[n_i], n_ascender, n_scaling), 1)
    /\ NormFrame

\* at an off-curve node: the run's length and the type of its endpoint
RunLen == OffcurveRun(Nodes, n_i)
Endpoint == Nodes[Advance(Nodes, n_i, RunLen)]
Offcurves == [k \in 1..RunLen |-> Nodes[Advance(Nodes, n_i, k - 1)]]

\* which branch a run of len off-curve nodes ended by a node of type t takes
RunBranch(len, t) ==
    IF len = 1 THEN (IF t = QCURVE THEN "quad" ELSE "assert")
    ELSE IF len = 2 /\ t = CURVE THEN "cubic"
    ELSE IF t = QCURVE THEN "qspline" ELSE "assert"

\* len(offcurves) == 1 and the assertion holds
ScanQuad ==
    /\ AtNode({OFFCURVE}) /\ RunBranch(RunLen, Endpoint.type) = "quad"
    /\ ScanEmit(EmitQuad(Nodes[n_i], Endpoint, n_ascender, n_scaling), RunLen + 1)
    /\ NormFrame

\* len(offcurves) == 2 and endpoint.type == CURVE
ScanCubic ==
    /\ AtNode({OFFCURVE}) /\ RunBranch(RunLen, Endpoint.type) = "cubic"
    /\ ScanEmit(EmitCubic(Offcurves[1], Offcurves[2], Endpoint, n_ascender, n_scaling),
                RunLen + 1)
    /\ NormFrame

\* else, and the assertion holds
ScanQSpline ==
    /\ AtNode({OFFCURVE}) /\ RunBranch(RunLen, Endpoint.type) = "qspline"
    /\ ScanEmit(emit_truetype_qspline(Offcurves, Endpoint, n_ascender, n_scaling),
                RunLen + 1)
    /\ NormFrame

\* assert endpoint.type == QCURVE fails
ScanAssertFail ==
    /\ AtNode({OFFCURVE}) /\ RunBranch(RunLen, Endpoint.type) = "assert"
    /\ NormRaise("AssertionError")
    /\ NormFrame

\* elif node.type in (CURVE, QCURVE): raise ValueError
ScanOnCurve ==
    /\ AtNode({CURVE, QCURVE})
    /\ NormRaise("ValueError")
    /\ NormFrame

\* (a return that would leave the node list rotated once more)
PathDoneRotating ==
    /\ n_pc = "scan" /\ n_i > Len(Nodes)
    /\ n_path_data_parts' = Append(n_path_data_parts, JoinSpace(Append(n_parts, CloseText)))
    /\ n_parts' = <<>>
    /\ n_i' = 0
    /\ n_shape' = n_shape + 1
    /\ n_pc' = "layer"
    /\ n_layer' = [n_layer EXCEPT ![n_shape].nodes = RotateLastToFront(@)]
    /\ UNCHANGED <<n_ascender, n_scaling, n_component_parts, n_stack, n_result, n_exc>>
    /\ NormFrame
\* the scan is over: parts.append('Z'); return ' '.join(parts), appended to
\* path_data_parts by _layer_to_svg_content, which goes on to the next shape
PathDone ==
    /\ n_pc = "scan" /\ n_i > Len(Nodes)
    /\ n_path_data_parts' = Append(n_path_data_parts, JoinSpace(Append(n_parts, CloseText)))
    /\ n_parts' = <<>>
    /\ n_i' = 0
    /\ n_shape' = n_shape + 1
    /\ n_pc' = "layer"
    /\ UNCHANGED <<n_layer, n_ascender, n_scaling, n_component_parts, n_stack,
                   n_result, n_exc>>
    /\ NormFrame

NextNorm ==
    \/ SvgAssertFail \/ SvgCall
    \/ LayerReturn \/ LayerPath \/ LayerUnexpectedShape
    \/ LayerComponent \/ ComponentNoLayer \/ ComponentReturn
    \/ PathNoNodes \/ PathRotate \/ PathStart
    \/ ScanLine \/ ScanQuad \/ ScanCubic \/ ScanQSpline \/ ScanAssertFail \/ ScanOnCurve
    \/ PathDone

-----------------------------------------------------------------------------
(* The extremum scanner: outermostRange(outline, direction) and            *)
(* outermostStrokes(outline, direction), called by sidebearings/main.py as *)
(* get_outermost_range and get_outermost_strokes.  One scan walks every    *)
(* node of every subpath of the layer and keeps the record, the range and  *)
(* the strokes; the two functions return the range and the strokes of the  *)
(* finished scan.                                                          *)

Directions == {"left", "right", "top", "bottom"}

RLess(p, q) == p[1] * q[2] < q[1] * p[2]
RLeast(S) == CHOOSE v \in S : \A w \in S : ~RLess(w, v)
RGreatest(S) == CHOOSE v \in S : \A w \in S : ~RLess(v, w)

\* the primary axis is x for left/right and y for top/bottom; the range and
\* the strokes are reported along the other axis
Primary(pos, direction) == IF direction \in {"left", "right"} THEN pos[1] ELSE pos[2]
Opposite(pos, direction) == IF direction \in {"left", "right"} THEN pos[2] ELSE pos[1]

\* the three-way comparison of a coordinate with the record: 1 when it strictly
\* improves the record (or there is none yet), 0 when it ties, -1 otherwise;
\* left/bottom seek the minimum, right/top seek the maximum
CompareAlwaysMinimum(v, record, direction) ==
    IF record = <<>> THEN 1
    ELSE IF v = record[1] THEN 0
    ELSE IF RLess(v, record[1]) THEN 1 ELSE -1
Compare(v, record, direction) ==
    IF record = <<>> THEN 1
    ELSE IF v = record[1] THEN 0
    ELSE IF (direction \in {"left", "bottom"}) = RLess(v, record[1]) THEN 1 ELSE -1

IsOnCurveWhateverType(node) == TRUE
IsOnCurve(node) == node.type # OFFCURVE

\* the representative midpoint of a run of tied nodes, by opposite-axis
\* coordinate
RunMidpoint(run) ==
    RDiv(RAdd(RLeast({run[k] : k \in 1..Len(run)}),
              RGreatest({run[k] : k \in 1..Len(run)})), R(2))

\* TRUE when no node before index i of nodes is on-curve
NoOnCurveBefore(nodes, i) == \A k \in 1..(i - 1) : ~IsOnCurve(nodes[k])

\* ---- inputs
ScanPoints == {<<x, y>> : x \in 0..1, y \in 0..1}
ScanNodes == {Node(type, p) : type \in {LINE, OFFCURVE}, p \in ScanPoints}
ScanSubpaths ==
    UNION {{Shape("path", nodes, closed, FALSE, <<>>, <<>>) :
                nodes \in [1..n -> ScanNodes], closed \in BOOLEAN} :
           n \in 1..MaxScanNodes}
\* a one-node subpath to stand before another one in a layer
ScanLeaders ==
    {Shape("path", <<Node(LINE, p)>>, TRUE, FALSE, <<>>, <<>>) : p \in {<<0, 0>>, <<1, 1>>}}
\* two unconnected clusters that touch y = 0 at x in [0, 2] and x in [8, 10]
TwoClusters ==
    <<Shape("path", <<Node(LINE, <<0, 0>>), Node(LINE, <<2, 0>>), Node(LINE, <<1, 3>>)>>,
            TRUE, FALSE, <<>>, <<>>),
      Shape("path", <<Node(LINE, <<8, 0>>), Node(LINE, <<10, 0>>), Node(LINE, <<9, 3>>)>>,
            TRUE, FALSE, <<>>, <<>>)>>
\* closed subpaths whose nodes at y = 0 begin and end the node array: a of them,
\* the nodes of middle above them, then b more; node k is at x = k
WrapNodes(a, middle, b) ==
    [k \in 1..(a + Len(middle) + b) |->
        Node(LINE, <<k, IF k > a /\ k <= a + Len(middle) THEN middle[k - a] ELSE 0>>)]
WrapSubpaths ==
    {Shape("path", WrapNodes(a, middle, b), TRUE, FALSE, <<>>, <<>>) :
        a \in 1..MaxScanNodes, b \in 1..MaxScanNodes, middle \in {<<1>>, <<1, 0, 1>>}}
ScanLayers ==
    {<<s>> : s \in ScanSubpaths \cup WrapSubpaths}
        \cup {<<l, s>> : l \in ScanLeaders, s \in ScanSubpaths \cup WrapSubpaths}
        \cup {TwoClusters}

\* the state at the first node of the first subpath: no record yet
InitExtremum ==
    /\ e_layer \in ScanLayers
    /\ e_direction \in Directions
    /\ e_pc = "scan" /\ e_shape = 1 /\ e_i = 1
    /\ e_record = <<>> /\ e_range = <<>> /\ e_strokes = <<>>
    /\ e_run = <<>> /\ e_from_start = FALSE /\ e_first = 0
    /\ AreaIdle /\ ParseIdle /\ NormIdle /\ GrayIdle

ScanAt == e_pc = "scan" /\ e_shape <= Len(e_layer) /\ e_i <= Len(e_layer[e_shape].nodes)
ScanNode == e_layer[e_shape].nodes[e_i]
ScanComparison == Compare(Primary(ScanNode.pos, e_direction), e_record, e_direction)

\* an off-curve node is excluded from the comparison
ExtremumOffcurve ==
    /\ ScanAt /\ ~IsOnCurve(ScanNode)
    /\ e_i' = e_i + 1
    /\ UNCHANGED <<e_layer, e_direction, e_pc, e_shape, e_record, e_range,
                   e_strokes, e_run, e_from_start, e_first>>
    /\ ExtremumFrame

ExtremumImproveKeepsStrokes ==
    /\ ScanAt /\ IsOnCurve(ScanNode) /\ ScanComparison = 1
    /\ e_record' = <<Primary(ScanNode.pos, e_direction)>>
    /\ e_range' = <<Opposite(ScanNode.pos, e_direction), Opposite(ScanNode.pos, e_direction)>>
    /\ e_strokes' = IF e_run = <<>> THEN e_strokes ELSE Append(e_strokes, e_run)
    /\ e_run' = <<Opposite(ScanNode.pos, e_direction)>>
    /\ e_from_start' = NoOnCurveBefore(e_layer[e_shape].nodes, e_i)
    /\ e_first' = 0
    /\ e_i' = e_i + 1
    /\ UNCHANGED <<e_layer, e_direction, e_pc, e_shape>>
    /\ ExtremumFrame
\* +1: the node starts a new record; what was accumulated is discarded
ExtremumImprove ==
    /\ ScanAt /\ IsOnCurve(ScanNode) /\ ScanComparison = 1
    /\ e_record' = <<Primary(ScanNode.pos, e_direction)>>
    /\ e_range' = <<Opposite(ScanNode.pos, e_direction), Opposite(ScanNode.pos, e_direction)>>
    /\ e_strokes' = <<>>
    /\ e_run' = <<Opposite(ScanNode.pos, e_direction)>>
    /\ e_from_start' = NoOnCurveBefore(e_layer[e_shape].nodes, e_i)
    /\ e_first' = 0
    /\ e_i' = e_i + 1
    /\ UNCHANGED <<e_layer, e_direction, e_pc, e_shape>>
    /\ ExtremumFrame

\* 0: the node ties the record; it extends the run in progress, or starts one,
\* and widens the range
ExtremumTie ==
    /\ ScanAt /\ IsOnCurve(ScanNode) /\ ScanComparison = 0
    /\ e_range' = <<IF RLess(Opposite(ScanNode.pos, e_direction), e_range[1])
                    THEN Opposite(ScanNode.pos, e_direction) ELSE e_range[1],
                    IF RLess(e_range[2], Opposite(ScanNode.pos, e_direction))
                    THEN Opposite(ScanNode.pos, e_direction) ELSE e_range[2]>>
    /\ e_run' = Append(e_run, Opposite(ScanNode.pos, e_direction))
    /\ e_from_start' = IF e_run = <<>> THEN NoOnCurveBefore(e_layer[e_shape].nodes, e_i)
                       ELSE e_from_start
    /\ e_i' = e_i + 1
    /\ UNCHANGED <<e_layer, e_direction, e_pc, e_shape, e_record, e_strokes, e_first>>
    /\ ExtremumFrame

ExtremumBelowKeepsRun ==
    /\ ScanAt /\ IsOnCurve(ScanNode) /\ ScanComparison = -1
    /\ e_i' = e_i + 1
    /\ UNCHANGED <<e_layer, e_direction, e_pc, e_shape, e_record, e_range,
                   e_strokes, e_run, e_from_start, e_first>>
    /\ ExtremumFrame
\* -1: the node does not improve; a run in progress is closed out as a stroke
\* and the record stays
ExtremumBelow ==
    /\ ScanAt /\ IsOnCurve(ScanNode) /\ ScanComparison = -1
    /\ e_strokes' = IF e_run = <<>> THEN e_strokes ELSE Append(e_strokes, e_run)
    /\ e_first' = IF e_run # <<>> /\ e_from_start THEN Len(e_strokes) + 1 ELSE e_first
    /\ e_run' = <<>>
    /\ e_from_start' = FALSE
    /\ e_i' = e_i + 1
    /\ UNCHANGED <<e_layer, e_direction, e_pc, e_shape, e_record, e_range>>
    /\ ExtremumFrame

ScanAtEnd == e_pc = "scan" /\ e_shape <= Len(e_layer) /\ e_i > Len(e_layer[e_shape].nodes)

RunNeverWraps == FALSE
\* the closing node of a closed subpath is its first on-curve node: the run in
\* progress at the end wraps around when that node ties the record and began a
\* run of its own
RunWraps ==
    /\ e_layer[e_shape].closed
    /\ ~e_from_start
    /\ \E k \in 1..Len(e_layer[e_shape].nodes) :
        /\ IsOnCurve(e_layer[e_shape].nodes[k])
        /\ NoOnCurveBefore(e_layer[e_shape].nodes, k)
        /\ Compare(Primary(e_layer[e_shape].nodes[k].pos, e_direction), e_record,
                   e_direction) = 0

ExtremumNextSubpath ==
    /\ e_shape' = e_shape + 1 /\ e_i' = 1
    /\ e_run' = <<>> /\ e_from_start' = FALSE /\ e_first' = 0
    /\ UNCHANGED <<e_layer, e_direction, e_pc, e_record, e_range>>
    /\ ExtremumFrame

\* the subpath is exhausted with no run in progress
ExtremumSubpathEnd ==
    /\ ScanAtEnd /\ e_run = <<>>
    /\ UNCHANGED e_strokes
    /\ ExtremumNextSubpath

\* the subpath is exhausted: the run in progress is flushed as a stroke
ExtremumFlush ==
    /\ ScanAtEnd /\ e_run # <<>> /\ ~RunWraps
    /\ e_strokes' = Append(e_strokes, e_run)
    /\ ExtremumNextSubpath

\* the subpath is exhausted and the run in progress wraps around: it is merged
\* with the run recorded at the start of the subpath
ExtremumMerge ==
    /\ ScanAtEnd /\ e_run # <<>> /\ RunWraps
    /\ e_strokes' = [e_strokes EXCEPT ![e_first] = e_run \o @]
    /\ ExtremumNextSubpath

\* all subpaths are exhausted
ExtremumReturn ==
    /\ e_pc = "scan" /\ e_shape > Len(e_layer)
    /\ e_pc' = "returned"
    /\ UNCHANGED <<e_layer, e_direction, e_shape, e_i, e_record, e_range,
                   e_strokes, e_run, e_from_start, e_first>>
    /\ ExtremumFrame

\* what the two functions return once e_pc = "returned"
outermostRange == e_range
outermostStrokes == [k \in 1..Len(e_strokes) |-> RunMidpoint(e_strokes[k])]

NextExtremum ==
    \/ ExtremumOffcurve \/ ExtremumImprove \/ ExtremumTie \/ ExtremumBelow
    \/ ExtremumSubpathEnd \/ ExtremumFlush \/ ExtremumMerge
    \/ ExtremumReturn

-----------------------------------------------------------------------------
(* grayscale(layer, 'integration') of metrics.py: _layer_grayscale_integration *)
(* calls layer_to_svg(layer, full_svg=False), svg_to_paths and             *)
(* area_of_paths one after the other, each running as modelled above, and  *)
(* divides the absolute area by width * height.                            *)

\* samples_per_segment: int = 20
GraySamples == 20

\* get_layer_height: ascender - descender, or vertWidth when the layer has one
\* (<<>> stands for None)
get_layer_height(ascender, descender, vertWidth) ==
    IF vertWidth # <<>> THEN vertWidth ELSE RSub(ascender, descender)

\* the call layer_to_svg(layer, full_svg=False) made by
\* _layer_grayscale_integration: scaling has its default 1.0
InitGray ==
    /\ n_layer \in NormLayers
    /\ n_ascender = R(8)
    /\ n_scaling = R(1)
    /\ n_shape = 1
    /\ n_pc = "call" /\ n_i = 0 /\ n_parts = <<>> /\ n_path_data_parts = <<>>
    /\ n_component_parts = <<>> /\ n_stack = <<>>
    /\ n_result = <<>> /\ n_exc = ""
    /\ g_pc = "svg" /\ g_width = Zero /\ g_height = Zero /\ g_result = Zero /\ g_exc = ""
    /\ AreaIdle /\ ParseIdle /\ ExtremumIdle

\* paths = svg_to_paths(layer_to_svg(layer, full_svg=False)): the call
GraySvgToPaths ==
    /\ g_pc = "svg" /\ n_pc = "returned"
    /\ s_text' = n_result /\ s_src' = <<>>
    /\ s_tokens' = <<>> /\ s_i' = 0 /\ s_curr_path' = <<>> /\ s_paths' = <<>>
    /\ s_pc' = "call" /\ s_exc' = ""
    /\ g_pc' = "parse"
    /\ UNCHANGED <<g_width, g_height, g_result, g_exc>>
    /\ UNCHANGED <<areaVars, normVars, extremumVars>>

\* area_of_paths(paths, samples_per_segment): the call
GrayAreaOfPaths ==
    /\ g_pc = "parse" /\ s_pc = "returned"
    /\ a_paths' = s_paths /\ a_samples' = GraySamples
    /\ a_pc' = "path" /\ a_p' = 1 /\ a_i' = 0
    /\ a_start' = NoPoint /\ a_curr' = NoPoint /\ a_total' = Zero
    /\ a_exc' = "" /\ a_width' = 0 /\ a_height' = 0 /\ a_ratio' = Zero
    /\ g_pc' = "area"
    /\ UNCHANGED <<g_width, g_height, g_result, g_exc>>
    /\ UNCHANGED <<parseVars, normVars, extremumVars>>

\* an exception of layer_to_svg or svg_to_paths leaves grayscale
GrayRaise ==
    /\ (g_pc = "svg" /\ n_pc = "raised") \/ (g_pc = "parse" /\ s_pc = "raised")
    /\ g_exc' = IF g_pc = "svg" THEN n_exc ELSE s_exc
    /\ g_pc' = "raised"
    /\ UNCHANGED <<g_width, g_height, g_result>>
    /\ UNCHANGED <<areaVars, parseVars, normVars, extremumVars>>

\* return area / (width * height), area = abs(area_of_paths(...)).  layer.width
\* and the layer's height are read only here, so they are drawn here.
GrayRatio(area, width, height) == RDiv(RAbs(area), RMul(width, height))

GrayReturn ==
    /\ g_pc = "area" /\ a_pc = "returned"
    /\ \E width \in {R(0), R(2), R(8)}, descender \in {R(0), R(-2)}, vertWidth \in {<<>>, R(4)} :
          /\ g_width' = width
          /\ g_height' = get_layer_height(n_ascender, descender, vertWidth)
          /\ IF RMul(width, g_height') = Zero
             THEN g_pc' = "raised" /\ g_exc' = "ZeroDivisionError" /\ g_result' = g_result
             ELSE /\ g_pc' = "returned" /\ g_exc' = g_exc
                  /\ g_result' = GrayRatio(a_total, width, g_height')
    /\ UNCHANGED <<areaVars, parseVars, normVars, extremumVars>>

\* The steps of the three callees as they run inside grayscale.  The scaling is
\* 1.0, so layer_to_svg's assertion holds; the text it returns has every number
\* a command asks for and begins each path with M, so svg_to_paths raises no
\* IndexError and area_of_paths finds its assertion true and every command
\* known; samples_per_segment is 20.
NextGray ==
    \/ SvgCall
    \/ LayerReturn \/ LayerPath \/ LayerUnexpectedShape
    \/ LayerComponent \/ ComponentNoLayer \/ ComponentReturn
    \/ PathNoNodes \/ PathRotate \/ PathStart
    \/ ScanLine \/ ScanQuad \/ ScanCubic \/ ScanQSpline \/ ScanAssertFail \/ ScanOnCurve
    \/ PathDone
    \/ GraySvgToPaths
    \/ ParseTokenize \/ ParseM \/ ParseL \/ ParseC \/ ParseQ \/ ParseZ
    \/ ParseUnexpected \/ ParseReturn
    \/ GrayAreaOfPaths
    \/ AreaReturn \/ AreaMove \/ AreaPathEnd
    \/ AreaLine \/ AreaQuad \/ AreaCubic \/ AreaClose
    \/ GrayRaise \/ GrayReturn

-----------------------------------------------------------------------------

SpecArea == InitArea /\ [][NextArea]_vars

SpecParse == InitParse /\ [][NextParse]_vars

SpecNorm == InitNorm /\ [][NextNorm]_vars

SpecExtremum == InitExtremum /\ [][NextExtremum]_vars

SpecGray == InitGray /\ [][NextGray]_vars

-----------------------------------------------------------------------------
(* Properties of the area engine, checked under SpecArea.                  *)

\* a path of the form Move, Line+, Close
IsPolygonPath(path) ==
    /\ Len(path) >= 4
    /\ path[1].op = "M"
    /\ path[Len(path)].op = "Z"
    /\ \A i \in 2..(Len(path) - 1) : path[i].op = "L"

\* its vertices, as rational points, and as integer points (the inputs'
\* coordinates are integers); a last Line back to the first vertex adds no vertex
RawVerts(path) == [i \in 1..(Len(path) - 1) |-> <<path[i].a[1], path[i].a[2]>>]
DropReturn(v) == IF v[Len(v)] = v[1] THEN SubSeq(v, 1, Len(v) - 1) ELSE v
Verts(path) == DropReturn(RawVerts(path))
IntPts(v) == [i \in 1..Len(v) |-> <<v[i][1][1], v[i][2][1]>>]

IsConvexPolygonInput ==
    /\ Len(a_paths) = 1
    /\ IsPolygonPath(a_paths[1])
    /\ Len(Verts(a_paths[1])) >= 3
    /\ (ConvexCCW(IntPts(Verts(a_paths[1]))) \/ ConvexCW(IntPts(Verts(a_paths[1]))))

AreaHasReturned == a_pc \in {"returned", "ratio"}

\* C1 (as claimed): for every simple convex polygon given as one path of a Move,
\* Lines and a Close, and for every samples_per_segment, area_of_paths returns
\* (it does not raise) exactly the shoelace area of the vertices, which is
\* positive iff the vertices are listed counter-clockwise.
C1_ShoelaceForEverySampleCount ==
    IsConvexPolygonInput =>
        /\ a_pc # "raised"
        /\ AreaHasReturned =>
              /\ a_total = Shoelace(Verts(a_paths[1]))
              /\ RPos(a_total) <=> ConvexCCW(IntPts(Verts(a_paths[1])))

\* What does hold of the code for C1's polygons: whenever area_of_paths returns,
\* the result is the shoelace area with the claimed sign; it raises exactly when
\* samples_per_segment is 0.
C1_ShoelaceWhenReturned ==
    IsConvexPolygonInput =>
        /\ (a_pc = "raised") => (a_samples = 0 /\ a_exc = "ZeroDivisionError")
        /\ AreaHasReturned =>
              /\ a_samples > 0
              /\ a_total = Shoelace(Verts(a_paths[1]))
              /\ RPos(a_total) <=> ConvexCCW(IntPts(Verts(a_paths[1])))

RECURSIVE SumOfShoelaces(_, _)
SumOfShoelaces(paths, k) ==
    IF k > Len(paths) THEN Zero
    ELSE RAdd(Shoelace(Verts(paths[k])), SumOfShoelaces(paths, k + 1))

AllPolygonPaths == a_paths # <<>> /\ \A k \in 1..Len(a_paths) : IsPolygonPath(a_paths[k])

\* C2: the value area_of_paths returns is the sum of the signed (shoelace) areas
\* of all subpaths, occupancy_ratio is the absolute value of that one total over
\* width*height, and the outer square of side 10 with the inner clockwise square
\* of side 4 gives 100 - 16 = 84.
C2_SignedTotalThenAbs ==
    /\ (AllPolygonPaths /\ AreaHasReturned) =>
          a_total = SumOfShoelaces(a_paths, 1)
    /\ (AllPolygonPaths /\ a_pc = "ratio") =>
          a_ratio = RDiv(RAbs(SumOfShoelaces(a_paths, 1)), R(a_width * a_height))
    /\ (a_paths = HoleGlyph /\ AreaHasReturned) => a_total = R(84)

C2_Witness ==
    /\ a_paths = HoleGlyph
    /\ a_pc = "ratio"
    /\ a_total = R(84)
    /\ a_ratio = RDiv(R(84), R(a_width * a_height))

\* the contribution of the straight line from p to q: (p.x*q.y - q.x*p.y) / 2
LineTerm(p, q) == RMul(Half, RSub(RMul(p[1], q[2]), RMul(q[1], p[2])))

\* C3: a step at a Close adds the contribution of the straight line from the
\* current point to the start point when they differ, adds nothing when they are
\* equal, and leaves the current point equal to the start point.
C3_CloseStep ==
    [][AtSeg("Z") =>
          /\ a_pc' = "seg"
          /\ a_curr' = a_start
          /\ a_total' = IF a_curr # a_start
                        THEN RAdd(a_total, LineTerm(a_curr, a_start))
                        ELSE a_total]_vars

\* a Close has just closed a subpath whose last Line ended away from the start
C3_Witness ==
    /\ a_pc = "seg"
    /\ a_i > 3
    /\ a_paths[a_p][a_i - 1].op = "Z"
    /\ a_paths[a_p][a_i - 2].op = "L"
    /\ a_paths[a_p][a_i - 2].a # a_start
    /\ a_curr = a_start
    /\ a_total # Zero

\* the smallest even number >= max(n, 2)
EvenAtLeastTwo(n) == IF n < 2 THEN 2 ELSE IF n % 2 = 0 THEN n ELSE n + 1

\* half the composite Simpson value of the line from p to q with m subintervals
SimpsonLineHalf(p, q, m) == RMul(Half, simpson_even(line_xy(p, q), m, RDiv(R(1), R(m))))

\* C4 (as claimed): simpson_integral never fails on a small sample count; for
\* every n >= 0 the integration of a segment returns the composite Simpson value
\* for the smallest even number of subintervals >= max(n, 2), so the step at a
\* Line adds half of that value and does not raise.
C4_SimpsonCoercesSmallN ==
    [][AtSeg("L") =>
          /\ a_pc' # "raised"
          /\ a_total' = RAdd(a_total, SimpsonLineHalf(a_curr, a_paths[a_p][a_i].a,
                                                      EvenAtLeastTwo(a_samples)))]_vars

\* What does hold for C4: n = 0 raises ZeroDivisionError, every n >= 1 is
\* integrated with the smallest even number of subintervals >= n.
C4_SimpsonFailsOnlyAtZero ==
    [][AtSeg("L") =>
          IF a_samples = 0
          THEN a_pc' = "raised" /\ a_exc' = "ZeroDivisionError"
          ELSE /\ a_pc' = "seg"
               /\ a_total' = RAdd(a_total, SimpsonLineHalf(a_curr, a_paths[a_p][a_i].a,
                                                           EvenAtLeastTwo(a_samples)))]_vars

\* an outline with no drawing segment: every path is a Move with an optional Close
IsEmptyOutline(paths) ==
    \A k \in 1..Len(paths) :
        /\ Len(paths[k]) \in {1, 2}
        /\ paths[k][1].op = "M"
        /\ Len(paths[k]) = 2 => paths[k][2].op = "Z"

\* C5: for an empty outline (no path, or paths with no drawing segment) the call
\* does not raise and occupancy_ratio returns 0, whatever the positive width and
\* height and whatever samples_per_segment.
C5_EmptyOutlineRatioZero ==
    IsEmptyOutline(a_paths) =>
        /\ a_pc # "raised"
        /\ a_pc = "ratio" => a_ratio = Zero

C5_Witness ==
    /\ IsEmptyOutline(a_paths)
    /\ Len(a_paths) = 2
    /\ a_samples = 0
    /\ a_pc = "ratio"
    /\ a_width = MaxDim
    /\ a_ratio = Zero

-----------------------------------------------------------------------------
(* Properties of svg_to_paths, checked under SpecParse.                    *)

\* C6 (as claimed): for every list of canonical paths, parsing the text written
\* for it returns (does not raise) the same number of paths with the identical
\* segment sequence and coordinates.
C6_RoundTrip ==
    s_src # <<>> =>
        /\ s_pc # "raised"
        /\ s_pc = "returned" => s_paths = s_src

\* What does hold for C6: the round trip is exact whenever no coordinate is
\* written in exponent notation, and fails whenever one is.
HasExponent(text) == \E i \in 1..Len(text) : text[i] = "e"
C6_RoundTripWithoutExponent ==
    (s_src # <<>> /\ s_pc \in {"returned", "raised"}) =>
        IF HasExponent(s_text)
        THEN ~(s_pc = "returned" /\ s_paths = s_src)
        ELSE s_pc = "returned" /\ s_paths = s_src

Letters ==
    {"a", "b", "c", "d", "e", "f", "g", "h", "i", "j", "k", "l", "m", "n", "o", "p", "q",
     "r", "s", "t", "u", "v", "w", "x", "y", "z", "A", "B", "C", "D", "E", "F", "G", "H",
     "I", "J", "K", "L", "M", "N", "O", "P", "Q", "R", "S", "T", "U", "V", "W", "X", "Y",
     "Z"}
HasForeignCommand(text) == \E i \in 1..Len(text) : text[i] \in Letters \ CmdChars

\* C7 (as claimed): a text that holds a command letter other than M, L, Q, C, Z
\* is rejected: svg_to_paths raises and returns nothing.
C7_RejectsForeignCommands ==
    (s_src = <<>> /\ HasForeignCommand(s_text)) => s_pc # "returned"

-----------------------------------------------------------------------------
(* Properties of the normalizer, checked under SpecNorm.                   *)

PrevIndex(nodes, i) == IF i = 1 THEN Len(nodes) ELSE i - 1

\* a run of 3 or more consecutive off-curve nodes ended by a CURVE node
HasQuarticRun(nodes) ==
    /\ Len(nodes) >= 4
    /\ \E i \in 1..Len(nodes) :
          /\ nodes[i].type = CURVE
          /\ nodes[PrevIndex(nodes, i)].type = OFFCURVE
          /\ nodes[PrevIndex(nodes, PrevIndex(nodes, i))].type = OFFCURVE
          /\ nodes[PrevIndex(nodes, PrevIndex(nodes, PrevIndex(nodes, i)))].type = OFFCURVE

\* the length of the off-curve run that ends just before index i
RECURSIVE RunBefore(_, _, _)
RunBefore(nodes, i, k) ==
    IF k >= Len(nodes) \/ nodes[PrevIndex(nodes, i)].type # OFFCURVE THEN k
    ELSE RunBefore(nodes, PrevIndex(nodes, i), k + 1)

\* well-formed node runs: a LINE node follows an on-curve node, a CURVE node ends
\* a run of 2 off-curve nodes, a QCURVE node ends a run of 1 or more
WellFormedNodes(nodes) ==
    /\ nodes # <<>>
    /\ \E i \in 1..Len(nodes) : nodes[i].type # OFFCURVE
    /\ \A i \in 1..Len(nodes) :
          CASE nodes[i].type = LINE -> RunBefore(nodes, i, 0) = 0
            [] nodes[i].type = CURVE -> RunBefore(nodes, i, 0) = 2
            [] nodes[i].type = QCURVE -> RunBefore(nodes, i, 0) >= 1
            [] OTHER -> TRUE

IsPathShape(k) == n_layer[k].kind = "path"
NodesOf(k) == n_layer[k].nodes

LayerWithQuarticRun ==
    /\ \A k \in 1..Len(n_layer) : IsPathShape(k)
    /\ \E k \in 1..Len(n_layer) : HasQuarticRun(NodesOf(k))
    /\ \A k \in 1..Len(n_layer) : HasQuarticRun(NodesOf(k)) \/ WellFormedNodes(NodesOf(k))

\* C8 (as claimed): when a subpath holds a run of 3 or more off-curve nodes ended
\* by a CURVE node (the other subpaths being well-formed), no exception escapes
\* the normalization of the layer.
C8_QuarticRunFailsOnlyItsSubpath ==
    LayerWithQuarticRun => n_pc # "raised"

\* What does hold for C8: such a layer never returns; the normalization ends
\* with the AssertionError of the malformed subpath.
C8_QuarticRunFailsTheLayer ==
    LayerWithQuarticRun => (n_pc # "returned" /\ (n_pc = "raised" => n_exc = "AssertionError"))

\* the Y-down point of a node
Flip(node) ==
    <<RMul(node.pos[1], n_scaling), RMul(RSub(n_ascender, node.pos[2]), n_scaling)>>

AtSingleOffcurve ==
    /\ n_pc = "scan" /\ n_i < Len(Nodes)
    /\ Nodes[n_i].type = OFFCURVE
    /\ Nodes[n_i + 1].type # OFFCURVE

\* C9 (as claimed): a run of exactly 1 off-curve node ended by a CURVE node
\* produces one Quad segment, control point the off-curve node, endpoint the
\* terminator.
C9_SingleOffcurveCurveGivesQuad ==
    [][(AtSingleOffcurve /\ Nodes[n_i + 1].type = CURVE) =>
          n_parts' = Append(n_parts, QuadText(Flip(Nodes[n_i]), Flip(Nodes[n_i + 1])))]_vars

\* C9 (amended): a run of exactly 1 off-curve node ended by a QCURVE node
\* produces one Quad segment, control point the off-curve node, endpoint the
\* terminator; ended by a node of any other type (CURVE, LINE) it produces no
\* segment: the normalizer raises AssertionError.
C9_SingleOffcurveQcurveGivesQuad ==
    [][AtSingleOffcurve =>
          IF Nodes[n_i + 1].type = QCURVE
          THEN /\ n_parts' = Append(n_parts, QuadText(Flip(Nodes[n_i]), Flip(Nodes[n_i + 1])))
               /\ n_i' = n_i + 2
               /\ n_pc' = "scan"
          ELSE /\ n_pc' = "raised"
               /\ n_exc' = "AssertionError"]_vars

\* the scan has just emitted the Quad of a single off-curve node and its QCURVE
C9_Witness ==
    /\ n_pc = "scan" /\ n_i >= 3
    /\ Nodes[n_i - 2].type = OFFCURVE
    /\ Nodes[n_i - 1].type = QCURVE
    /\ Nodes[PrevIndex(Nodes, n_i - 2)].type # OFFCURVE
    /\ n_parts[Len(n_parts)] = QuadText(Flip(Nodes[n_i - 2]), Flip(Nodes[n_i - 1]))

\* the scan is at an on-curve node that directly follows an on-curve node
AtOnCurveAfterOnCurve ==
    /\ n_pc = "scan" /\ n_i <= Len(Nodes)
    /\ Nodes[n_i].type # OFFCURVE
    /\ Nodes[PrevIndex(Nodes, n_i)].type # OFFCURVE

\* C10 (as claimed): every on-curve node that directly follows another on-curve
\* node produces one Line segment ending at that node.
C10_OnCurveAfterOnCurveGivesLine ==
    [][AtOnCurveAfterOnCurve =>
          n_parts' = Append(n_parts, LineText(Flip(Nodes[n_i])))]_vars

\* C10 (amended): every on-curve node of type LINE that directly follows another
\* on-curve node produces one Line segment ending at that node; an on-curve node
\* of type CURVE or QCURVE there produces no segment: the normalizer raises
\* ValueError.
C10_LineNodeGivesLine ==
    [][AtOnCurveAfterOnCurve =>
          IF Nodes[n_i].type = LINE
          THEN /\ n_parts' = Append(n_parts, LineText(Flip(Nodes[n_i])))
               /\ n_i' = n_i + 1
               /\ n_pc' = "scan"
          ELSE /\ n_pc' = "raised"
               /\ n_exc' = "ValueError"]_vars

\* the scan has just emitted the Line of a LINE node that follows an on-curve node
C10_Witness ==
    /\ n_pc = "scan" /\ n_i >= 3
    /\ Nodes[n_i - 1].type = LINE
    /\ Nodes[n_i - 2].type \in {CURVE, QCURVE}
    /\ n_parts[Len(n_parts)] = LineText(Flip(Nodes[n_i - 1]))
    /\ Len(n_parts) >= 3

\* the Y-down image of a Y-up point
FlipPoint(p) == <<RMul(p[1], n_scaling), RMul(RSub(n_ascender, p[2]), n_scaling)>>
\* the point halfway between two Y-up points
MidOf(p, q) == <<RDiv(RAdd(p[1], q[1]), R(2)), RDiv(RAdd(p[2], q[2]), R(2))>>

\* the scan is at the first node of a run of k off-curve nodes
AtOffcurveRun(k) ==
    /\ n_pc = "scan" /\ n_i + k <= Len(Nodes)
    /\ \A j \in 0..(k - 1) : Nodes[n_i + j].type = OFFCURVE
    /\ Nodes[n_i + k].type # OFFCURVE

\* the k Quad segments of a run of k off-curve nodes from index i, ended by the
\* node at i + k
SplineQuads(nodes, i, k) ==
    [j \in 1..k |->
        QuadText(FlipPoint(nodes[i + j - 1].pos),
                 IF j < k THEN FlipPoint(MidOf(nodes[i + j - 1].pos, nodes[i + j].pos))
                 ELSE FlipPoint(nodes[i + k].pos))]

\* C11: for a run of k >= 2 off-curve nodes ended by a QCURVE node the
\* normalizer emits exactly k Quad segments in order, the i-th with the i-th
\* off-curve node as control point and ending at the midpoint of the i-th and
\* (i+1)-th off-curve nodes, the last ending at the terminator.
C11_QSplineMidpoints ==
    [][\A k \in 2..MaxNodes :
          (AtOffcurveRun(k) /\ Nodes[n_i + k].type = QCURVE) =>
              /\ n_parts' = Append(n_parts, JoinSpace(SplineQuads(Nodes, n_i, k)))
              /\ n_i' = n_i + k + 1
              /\ n_pc' = "scan"]_vars

\* the scan has just emitted the three Quads of a run of three off-curve nodes
C11_Witness ==
    /\ n_pc = "scan" /\ n_i = 5
    /\ \A j \in 1..3 : Nodes[j].type = OFFCURVE
    /\ Nodes[4].type = QCURVE
    /\ Len(n_parts) = 2
    /\ n_parts[2] = JoinSpace(SplineQuads(Nodes, 1, 3))

\* the sequence of which nodes is the rotation that moved the last r nodes to
\* the front
Unrotated(nodes, r) == [k \in 1..Len(nodes) |-> nodes[((k - 1 + r) % Len(nodes)) + 1]]
\* a path is given with its k-th node at NodePoints[k]
IsInputOrder(nodes) == \A k \in 1..Len(nodes) : nodes[k].pos = RP(NodePoints[k])
\* the number of off-curve nodes at the end of a sequence
RECURSIVE TrailingOffcurves(_, _)
TrailingOffcurves(nodes, n) ==
    IF n = 0 THEN 0
    ELSE IF nodes[n].type # OFFCURVE THEN 0
    ELSE 1 + TrailingOffcurves(nodes, n - 1)

\* C12: when the last node of a closed subpath is off-curve, the normalizer
\* rotates the node sequence so that its last node is on-curve; the rotated
\* sequence, and every sequence on the way to it, is a cyclic rotation of the
\* original: the same nodes in the same cyclic order, none dropped or
\* duplicated.  The one reached moved exactly the trailing off-curve nodes to
\* the front.
C12_RotationIsCyclic ==
    \A s \in 1..Len(n_layer) :
        n_layer[s].nodes # <<>> =>
            /\ \E r \in 0..(Len(n_layer[s].nodes) - 1) :
                  IsInputOrder(Unrotated(n_layer[s].nodes, r))
            /\ (s = n_shape /\ n_pc = "scan") =>
                  /\ n_layer[s].nodes[Len(n_layer[s].nodes)].type # OFFCURVE
                  /\ \E r \in 0..(Len(n_layer[s].nodes) - 1) :
                        /\ IsInputOrder(Unrotated(n_layer[s].nodes, r))
                        /\ r = TrailingOffcurves(Unrotated(n_layer[s].nodes, r),
                                                 Len(n_layer[s].nodes))

\* the scan starts on a subpath that was given with two off-curve nodes last
C12_Witness ==
    /\ n_pc = "scan" /\ n_i = 1 /\ Len(Nodes) >= 4
    /\ IsInputOrder(Unrotated(Nodes, 2))
    /\ Nodes[1].type = OFFCURVE /\ Nodes[2].type = OFFCURVE
    /\ Nodes[Len(Nodes)].type # OFFCURVE

IsOpenPath(s) == n_layer[s].kind = "path" /\ ~n_layer[s].closed

\* C13 (as claimed): the normalizer fails fast on an open subpath: no
\* Close-terminated path is emitted for it (the shape loop never gets past it)
\* and the normalization does not return.
C13_OpenSubpathFailsFast ==
    \A s \in 1..Len(n_layer) :
        IsOpenPath(s) => (n_shape <= s /\ n_pc # "returned")

\* What does hold for C13: the closed flag is never read; the text of an open
\* subpath is emitted like that of a closed one, ending with Z.
C13_OpenSubpathIsClosed ==
    [][(n_pc = "scan" /\ n_i > Len(Nodes) /\ IsOpenPath(n_shape)) =>
          /\ Len(n_path_data_parts') = Len(n_path_data_parts) + 1
          /\ LET text == n_path_data_parts'[Len(n_path_data_parts')]
             IN  text[Len(text)] = "Z"]_vars

\* the numbers written in a text, in order
PartNumbers(text) == SelectSeq(Tokenize(text, 1), LAMBDA t : ~IsCmdTok(t))
\* the coordinates of the Y-down images of a sequence of Y-up points
FlippedCoords(pts) ==
    [j \in 1..(2 * Len(pts)) |-> FlipPoint(pts[(j + 1) \div 2])[((j - 1) % 2) + 1]]
\* the off-curve nodes of a run of k from index i, each but the last followed by
\* its midpoint with the next, then the run's endpoint
SplineSource(nodes, i, k) ==
    [j \in 1..(2 * k) |->
        IF j % 2 = 1 THEN nodes[i + (j - 1) \div 2].pos
        ELSE IF j = 2 * k THEN nodes[i + k].pos
        ELSE MidOf(nodes[i + (j \div 2) - 1].pos, nodes[i + (j \div 2)].pos)]
RunSource(nodes, i, k) ==
    IF k = 2 /\ nodes[i + k].type = CURVE
    THEN <<nodes[i].pos, nodes[i + 1].pos, nodes[i + 2].pos>>
    ELSE SplineSource(nodes, i, k)
\* the Y-up points of the part the normalizer is about to write: the Move point
\* (the last node), the end of a Line, or the points of an off-curve run
SourcePoints ==
    IF n_pc = "rotate" THEN <<Nodes[Len(Nodes)].pos>>
    ELSE IF Nodes[n_i].type # OFFCURVE THEN <<Nodes[n_i].pos>>
    ELSE RunSource(Nodes, n_i, CHOOSE k \in 1..Len(Nodes) : AtOffcurveRun(k))

\* C14: every coordinate pair the normalizer emits for a subpath (the Move point,
\* Line endpoints, Quad and Cubic control points and endpoints, the synthesized
\* midpoints) equals (x * scaling, (ascender - y) * scaling) of the corresponding
\* Y-up source point.
C14_EveryCoordinateFlipped ==
    [][(n_parts' # n_parts /\ n_parts' # <<>>) =>
          PartNumbers(n_parts'[Len(n_parts')]) = FlippedCoords(SourcePoints)]_vars

\* the scan has written a Move, a Line and a Cubic at scaling 1/2
C14_Witness ==
    /\ n_pc = "scan" /\ n_i = 5 /\ n_scaling = Half
    /\ Nodes[1].type = LINE /\ Nodes[4].type = CURVE
    /\ Len(n_parts) = 3
    /\ PartNumbers(n_parts[1]) = FlippedCoords(<<Nodes[4].pos>>)
    /\ PartNumbers(n_parts[3]) = FlippedCoords(<<Nodes[2].pos, Nodes[3].pos, Nodes[4].pos>>)

\* a call of _layer_to_svg_content for a component's layer is about to return
ComponentReturning == n_pc = "layer" /\ n_shape > Len(n_layer) /\ n_stack # <<>>
\* the transform of the component whose layer is being normalized
CallerTransform == n_stack[Len(n_stack)].layer[n_stack[Len(n_stack)].shape].transform
\* the numbers of the matrix at the head of the text of a component
MatrixOf(text) ==
    PartNumbers(SubSeq(text, 1, CHOOSE i \in 1..Len(text) :
                                   text[i] = ")" /\ \A j \in 1..(i - 1) : text[j] # ")"))
\* SVG's matrix(a, b, c, d, e, f) applied to a point
ApplyMatrix(m, q) ==
    <<RAdd(RAdd(RMul(m[1], q[1]), RMul(m[3], q[2])), m[5]),
      RAdd(RAdd(RMul(m[2], q[1]), RMul(m[4], q[2])), m[6])>>
\* the points of the paths of a layer
PathPoints(layer) ==
    UNION {{layer[s].nodes[k].pos : k \in 1..Len(layer[s].nodes)} :
              s \in {s \in 1..Len(layer) : layer[s].kind = "path"}}
\* an affine transform (a, b, c, d, tx, ty) applied to a Y-up point
ApplyTransform(t, p) ==
    <<RAdd(RAdd(RMul(t[1], p[1]), RMul(t[3], p[2])), t[5]),
      RAdd(RAdd(RMul(t[2], p[1]), RMul(t[4], p[2])), t[6])>>
\* the emitted matrix takes the flipped points of the layer to the flipped
\* images of the transformed points
FlipCommutes(text, t, layer) ==
    \A p \in PathPoints(layer) :
        ApplyMatrix(MatrixOf(text), FlipPoint(p)) = FlipPoint(ApplyTransform(t, p))

\* C15 (as claimed): for a component with a 6-value transform, applying the
\* emitted matrix to the already Y-flipped coordinates places every point of the
\* referenced outline at (X * scaling, (ascender - Y) * scaling), (X, Y) being the
\* transform of the point's Y-up coordinates, also when the transform scales or
\* skews.
C15_ComponentFlipCommutes ==
    [][ComponentReturning =>
          FlipCommutes(n_component_parts'[Len(n_component_parts')], CallerTransform,
                       n_layer)]_vars

\* What does hold for C15: the points land there exactly when the transform has
\* c = 0 and d = 1 (a translation, a horizontal scaling); with vertical scaling
\* or a skew they are off by the ascender's share.
C15_FlipCommutesWithoutVerticalTerms ==
    [][(ComponentReturning /\ PathPoints(n_layer) # {}) =>
          (FlipCommutes(n_component_parts'[Len(n_component_parts')], CallerTransform,
                        n_layer)
             <=> (CallerTransform[3] = Zero /\ CallerTransform[4] = R(1)))]_vars

\* Progress of the two loops of _path_to_svg_path_data
HasOnCurveNode(nodes) == \E k \in 1..Len(nodes) : nodes[k].type # OFFCURVE

\* a step of the rotation loop, and a step of the node scan
RotationStep == n_pc = "rotate" /\ n_pc' = "rotate" /\ n_layer' # n_layer
ScanStep == n_pc = "scan" /\ n_pc' = "scan"

\* the rotation comes closer to its end: fewer off-curve nodes are last
RotationProgresses ==
    TrailingOffcurves(Nodes', Len(Nodes')) < TrailingOffcurves(Nodes, Len(Nodes))
\* the scan comes closer to its end: the index grows, up to the number of nodes
ScanProgresses == n_i' > n_i /\ n_i' <= Len(Nodes) + 1

\* the layer the outermost call was given
TopLayer == IF n_stack = <<>> THEN n_layer ELSE n_stack[1].layer
\* some component of the layer, at any depth, has no layer
RECURSIVE HasUnresolved(_)
HasUnresolved(layer) ==
    \E s \in 1..Len(layer) :
        /\ layer[s].kind = "component"
        /\ IF layer[s].resolved THEN HasUnresolved(layer[s].layer) ELSE TRUE
\* the shape loop is at a component without a layer
AtUnresolved ==
    /\ n_pc = "layer" /\ n_shape <= Len(n_layer)
    /\ n_layer[n_shape].kind = "component" /\ ~n_layer[n_shape].resolved

\* C16 (as claimed): if a component at any nesting depth cannot resolve its
\* referenced outline, normalizing the layer raises an error and returns no
\* partial result, whatever other paths and components the layer holds and in
\* whatever order: no result is ever returned, reaching that component raises
\* ValueError, and every step of a loop on the way brings the loop closer to its
\* end, so the call does end with an error.
C16_UnresolvedComponentRaises ==
    /\ [](HasUnresolved(TopLayer) => (n_pc # "returned" /\ n_result = <<>>))
    /\ [][AtUnresolved =>
             (n_pc' = "raised" /\ n_exc' = "ValueError" /\ n_result' = <<>>)]_vars
    /\ [][HasUnresolved(TopLayer) =>
             /\ RotationStep => RotationProgresses
             /\ ScanStep => ScanProgresses]_vars

\* what does hold: such a layer never returns a result, partial or complete,
\* and reaching the component raises ValueError; the call ends with an error
\* unless a path with no on-curve node comes before the component
C16_UnresolvedComponentNeverReturns ==
    /\ [](HasUnresolved(TopLayer) => (n_pc # "returned" /\ n_result = <<>>))
    /\ [][AtUnresolved =>
             (n_pc' = "raised" /\ n_exc' = "ValueError" /\ n_result' = <<>>)]_vars
    /\ [][HasUnresolved(TopLayer) =>
             /\ (RotationStep /\ HasOnCurveNode(Nodes)) => RotationProgresses
             /\ ScanStep => ScanProgresses]_vars

\* no subpath has been rotated, and nothing has been written
NothingComputed ==
    /\ \A s \in 1..Len(n_layer) : IsInputOrder(n_layer[s].nodes)
    /\ n_parts = <<>> /\ n_path_data_parts = <<>> /\ n_component_parts = <<>>
    /\ n_stack = <<>> /\ n_result = <<>>

\* C17: layer_to_svg called with a scaling factor <= 0 is rejected before any
\* computation starts: it raises at its first step, and no subpath of the layer
\* is read, rotated or emitted, then or later.
C17_NonPositiveScalingRejected ==
    /\ [](n_scaling[1] <= 0 => (n_pc \in {"call", "raised"} /\ NothingComputed))
    /\ [][(n_pc = "call" /\ n_scaling[1] <= 0) =>
             (n_pc' = "raised" /\ n_exc' = "AssertionError")]_vars

\* the call with scaling 0 of a layer whose subpath would be rotated has raised
C17_Witness ==
    /\ n_pc = "raised" /\ n_exc = "AssertionError" /\ n_scaling = Zero
    /\ Len(n_layer) = 1 /\ n_layer[1].kind = "path" /\ Len(n_layer[1].nodes) = 3
    /\ n_layer[1].nodes[3].type = OFFCURVE /\ n_layer[1].nodes[1].type = LINE
    /\ NothingComputed

\* how many times a character stands in a text
CountChar(text, c) == Cardinality({i \in 1..Len(text) : text[i] = c})
\* the scan of a closed subpath is over: every node run was well-formed
ClosedPathFinishing ==
    /\ n_pc = "scan" /\ n_i > Len(Nodes)
    /\ n_layer[n_shape].closed
\* the text begins with one Move at the Y-down image of p, holds no other Move,
\* and ends with its one Close
OneMoveOneClose(text, p) ==
    /\ text[1] = "M" /\ CountChar(text, "M") = 1
    /\ text[Len(text)] = "Z" /\ CountChar(text, "Z") = 1
    /\ \E n \in 1..(Len(text) - 1) :
          /\ text[n + 1] = " "
          /\ PartNumbers(SubSeq(text, 1, n)) = FlippedCoords(<<p>>)

\* C18: for every closed subpath with well-formed node runs, the command
\* sequence the normalizer emits begins with exactly one Move, placed at the last
\* on-curve node of the rotated sequence, contains no other Move, and ends with
\* exactly one Close.
C18_OneMoveOneClose ==
    /\ [][ClosedPathFinishing =>
             /\ Len(n_path_data_parts') = Len(n_path_data_parts) + 1
             /\ OneMoveOneClose(n_path_data_parts'[Len(n_path_data_parts')],
                                Nodes[Len(Nodes)].pos)
             /\ Nodes[Len(Nodes)].type # OFFCURVE]_vars
    \* and no subpath with well-formed node runs fails on the way there
    /\ []((n_pc = "raised" /\ n_scaling[1] > 0 /\ n_shape <= Len(n_layer)) =>
             (n_layer[n_shape].kind = "path" => ~WellFormedNodes(Nodes)))

\* the text of a rotated subpath with a Cubic and a Line has been emitted
C18_Witness ==
    /\ n_pc = "layer" /\ n_shape = 2 /\ Len(n_path_data_parts) = 1
    /\ n_layer[1].kind = "path" /\ n_layer[1].closed
    /\ IsInputOrder(Unrotated(n_layer[1].nodes, 2))
    /\ OneMoveOneClose(n_path_data_parts[1], n_layer[1].nodes[Len(n_layer[1].nodes)].pos)
    /\ CountChar(n_path_data_parts[1], "C") = 1
    /\ CountChar(n_path_data_parts[1], "L") = 1

-----------------------------------------------------------------------------
(* More properties of svg_to_paths, checked under SpecParse.               *)

BeginsWithOnlyMove(path) ==
    /\ path # <<>>
    /\ path[1].op = "M"
    /\ \A k \in 2..Len(path) : path[k].op # "M"

\* C19 (as claimed): every path returned by svg_to_paths begins with a Move and
\* contains no other Move; a text whose first command is not M is never
\* returned as a path.
C19_ReturnedPathsBeginWithMove ==
    s_pc = "returned" => \A p \in 1..Len(s_paths) : BeginsWithOnlyMove(s_paths[p])

\* What does hold for C19: no returned path is empty or holds a Move after its
\* first segment, and every returned path but the first begins with a Move; the
\* first begins with whatever command the text begins with.
C19_OnlyFirstPathMayLackMove ==
    s_pc = "returned" =>
        \A p \in 1..Len(s_paths) :
            /\ s_paths[p] # <<>>
            /\ \A k \in 2..Len(s_paths[p]) : s_paths[p][k].op # "M"
            /\ p > 1 => s_paths[p][1].op = "M"
            /\ (p = 1 /\ s_tokens # <<>>) =>
                  CmdCode(s_paths[p][1].op) = s_tokens[1][1]

-----------------------------------------------------------------------------
(* Properties of the extremum scanner, checked under SpecExtremum.         *)

\* the on-curve nodes of every subpath of the layer
OnCurveNodes ==
    UNION {{e_layer[s].nodes[k] : k \in {j \in 1..Len(e_layer[s].nodes) :
                                            IsOnCurve(e_layer[s].nodes[j])}} :
           s \in 1..Len(e_layer)}

\* v is the extreme primary-axis coordinate of the on-curve nodes: the least
\* x for left, the greatest x for right, the greatest y for top, the least y
\* for bottom
IsExtreme(v) ==
    /\ \E n \in OnCurveNodes : v = (IF e_direction \in {"left", "right"} THEN n.pos[1] ELSE n.pos[2])
    /\ e_direction = "left" => \A n \in OnCurveNodes : ~RLess(n.pos[1], v)
    /\ e_direction = "right" => \A n \in OnCurveNodes : ~RLess(v, n.pos[1])
    /\ e_direction = "top" => \A n \in OnCurveNodes : ~RLess(v, n.pos[2])
    /\ e_direction = "bottom" => \A n \in OnCurveNodes : ~RLess(n.pos[2], v)

\* the opposite-axis coordinates of the on-curve nodes at the extreme
ExtremeOpposites ==
    {IF e_direction \in {"left", "right"} THEN n.pos[2] ELSE n.pos[1] :
        n \in {m \in OnCurveNodes :
                  IsExtreme(IF e_direction \in {"left", "right"} THEN m.pos[1] ELSE m.pos[2])}}

\* C20: outermostRange returns the least and the greatest opposite-axis
\* coordinate over exactly the on-curve nodes whose primary-axis coordinate is
\* the extreme one: the minimum for left and bottom, the maximum for right and
\* top, x being the primary axis for left/right and y for top/bottom.
C20_RangeOverExtremeNodes ==
    (e_pc = "returned" /\ OnCurveNodes # {}) =>
        /\ Len(outermostRange) = 2
        /\ \A v \in ExtremeOpposites :
            ~RLess(v, outermostRange[1]) /\ ~RLess(outermostRange[2], v)
        /\ outermostRange[1] \in ExtremeOpposites
        /\ outermostRange[2] \in ExtremeOpposites

\* a finished scan of a layer with an off-curve node, an on-curve node that is
\* not at the extreme, and two on-curve nodes at the extreme that span a range
C20_Witness ==
    /\ e_pc = "returned"
    /\ Len(outermostRange) = 2
    /\ RLess(outermostRange[1], outermostRange[2])
    /\ \E n \in OnCurveNodes : ~IsExtreme(Primary(n.pos, e_direction))
    /\ \E s \in 1..Len(e_layer) : \E k \in 1..Len(e_layer[s].nodes) :
        ~IsOnCurve(e_layer[s].nodes[k])
\* the scan is at an off-curve node
AtOffcurveNode ==
    /\ e_pc = "scan" /\ e_shape <= Len(e_layer)
    /\ e_i <= Len(e_layer[e_shape].nodes)
    /\ e_layer[e_shape].nodes[e_i].type = OFFCURVE

\* the node lies strictly beyond every on-curve node of the layer in the
\* scanned direction
BeyondEveryOnCurve(node) ==
    \A n \in OnCurveNodes :
        IF e_direction \in {"left", "bottom"}
        THEN RLess(Primary(node.pos, e_direction), Primary(n.pos, e_direction))
        ELSE RLess(Primary(n.pos, e_direction), Primary(node.pos, e_direction))

\* C21: a step of the extremum scan that visits an off-curve node changes
\* neither the record, nor the range, nor the strokes (closed out or in
\* progress), and a finished scan holds no record that only an off-curve node
\* reaches.
C21_OffcurveNeverCounts ==
    /\ [][AtOffcurveNode => UNCHANGED <<e_record, e_range, e_strokes, e_run>>]_vars
    /\ [](e_pc = "returned" /\ e_record # <<>> =>
            \E n \in OnCurveNodes : Primary(n.pos, e_direction) = e_record[1])

\* a finished scan of a layer with an off-curve node beyond every on-curve
\* node, whose record is the on-curve extreme
C21_Witness ==
    /\ e_pc = "returned"
    /\ OnCurveNodes # {}
    /\ \E s \in 1..Len(e_layer) : \E k \in 1..Len(e_layer[s].nodes) :
        /\ e_layer[s].nodes[k].type = OFFCURVE
        /\ BeyondEveryOnCurve(e_layer[s].nodes[k])
    /\ IsExtreme(e_record[1])
    /\ Len(outermostStrokes) >= 1
\* the indices of the on-curve nodes of subpath s, and of those at the extreme
OnCurveIndices(s) == {j \in 1..Len(e_layer[s].nodes) : e_layer[s].nodes[j].type # OFFCURVE}
TiedIndices(s) ==
    {j \in OnCurveIndices(s) : IsExtreme(Primary(e_layer[s].nodes[j].pos, e_direction))}

\* the on-curve node before node j of subpath s: the nearest one at a smaller
\* index, else the last one when the subpath is closed, else none (0)
PreviousOnCurve(s, j) ==
    IF \E k \in OnCurveIndices(s) : k < j
    THEN CHOOSE k \in OnCurveIndices(s) :
            k < j /\ \A l \in OnCurveIndices(s) : l < j => l <= k
    ELSE IF e_layer[s].closed
         THEN CHOOSE k \in OnCurveIndices(s) : \A l \in OnCurveIndices(s) : l <= k
         ELSE 0

\* the number of maximal contiguous runs of tied on-curve nodes in subpath s:
\* a run begins at each tied node whose predecessor is not tied; a subpath
\* whose on-curve nodes are all tied is one run
RunsOfSubpath(s) ==
    IF TiedIndices(s) # {} /\ TiedIndices(s) = OnCurveIndices(s) THEN 1
    ELSE Cardinality({j \in TiedIndices(s) : PreviousOnCurve(s, j) \notin TiedIndices(s)})

RECURSIVE RunsUpTo(_)
RunsUpTo(s) == IF s = 0 THEN 0 ELSE RunsOfSubpath(s) + RunsUpTo(s - 1)

\* C22: when the on-curve nodes tied at the extreme form k separate maximal
\* contiguous runs, outermostStrokes returns exactly k strokes and
\* outermostRange the combined extent of all of them; for direction bottom the
\* two clusters touching y = 0 at x in [0, 2] and x in [8, 10] give 2 strokes
\* and the range [0, 10].
C22_OneStrokePerRun ==
    e_pc = "returned" =>
        /\ Len(outermostStrokes) = RunsUpTo(Len(e_layer))
        /\ OnCurveNodes # {} =>
            outermostRange = <<RLeast(ExtremeOpposites), RGreatest(ExtremeOpposites)>>
        /\ (e_layer = TwoClusters /\ e_direction = "bottom") =>
            /\ Len(outermostStrokes) = 2
            /\ outermostRange = <<R(0), R(10)>>

\* the finished scan of the two clusters for direction bottom
C22_Witness ==
    /\ e_pc = "returned"
    /\ e_layer = TwoClusters /\ e_direction = "bottom"
    /\ RunsUpTo(Len(e_layer)) = 2
    /\ outermostStrokes = <<R(1), R(9)>>
\* the on-curve nodes of subpath s in order
OnCurveSeq(s) == SelectSeq(e_layer[s].nodes, LAMBDA n : n.type # OFFCURVE)
TiedNode(n) == IsExtreme(Primary(n.pos, e_direction))

\* how many on-curve nodes at the start, and at the end, of subpath s are tied
LeadingTied(s) ==
    CHOOSE a \in 0..Len(OnCurveSeq(s)) :
        /\ \A k \in 1..a : TiedNode(OnCurveSeq(s)[k])
        /\ a = Len(OnCurveSeq(s)) \/ ~TiedNode(OnCurveSeq(s)[a + 1])
TrailingTied(s) ==
    CHOOSE b \in 0..Len(OnCurveSeq(s)) :
        /\ \A k \in (Len(OnCurveSeq(s)) - b + 1)..Len(OnCurveSeq(s)) : TiedNode(OnCurveSeq(s)[k])
        /\ b = Len(OnCurveSeq(s)) \/ ~TiedNode(OnCurveSeq(s)[Len(OnCurveSeq(s)) - b])

\* subpath s is closed and a tied run spans its wraparound point
SpansWraparound(s) ==
    /\ e_layer[s].closed
    /\ LeadingTied(s) >= 1 /\ TrailingTied(s) >= 1
    /\ LeadingTied(s) < Len(OnCurveSeq(s))

\* the opposite-axis coordinates of that run in cyclic order: the tied nodes at
\* the end of the array, then those at its start
WrappedRun(s) ==
    [k \in 1..(TrailingTied(s) + LeadingTied(s)) |->
        Opposite(OnCurveSeq(s)[IF k <= TrailingTied(s)
                               THEN Len(OnCurveSeq(s)) - TrailingTied(s) + k
                               ELSE k - TrailingTied(s)].pos, e_direction)]

\* the tied on-curve nodes of the layer differ in their opposite-axis
\* coordinate, so that a stroke tells which nodes it was made of
TiedNodesDiffer ==
    \A s, t \in 1..Len(e_layer) : \A j \in TiedIndices(s), k \in TiedIndices(t) :
        (s # t \/ j # k) =>
            Opposite(e_layer[s].nodes[j].pos, e_direction)
                # Opposite(e_layer[t].nodes[k].pos, e_direction)

StrokeValues(k) == {e_strokes[k][j] : j \in 1..Len(e_strokes[k])}

\* C23: a tied run of a closed subpath that spans the wraparound point is
\* reported as exactly one stroke, whatever the number of tied nodes on either
\* side of the array boundary: one stroke holds the whole run and no other
\* stroke holds a node of it.
C23_WrappedRunIsOneStroke ==
    (e_pc = "returned" /\ TiedNodesDiffer) =>
        \A s \in 1..Len(e_layer) : SpansWraparound(s) =>
            /\ Cardinality({k \in 1..Len(e_strokes) : e_strokes[k] = WrappedRun(s)}) = 1
            /\ \A k \in 1..Len(e_strokes) :
                e_strokes[k] # WrappedRun(s) =>
                    StrokeValues(k) \cap {WrappedRun(s)[j] : j \in 1..Len(WrappedRun(s))} = {}

\* a finished scan of a layer whose second subpath has two tied nodes on either
\* side of the array boundary and a run of its own in between
C23_Witness ==
    /\ e_pc = "returned" /\ TiedNodesDiffer
    /\ Len(e_layer) = 2 /\ SpansWraparound(2)
    /\ LeadingTied(2) = 2 /\ TrailingTied(2) = 2
    /\ RunsOfSubpath(1) = 1 /\ RunsOfSubpath(2) = 2
    /\ Len(outermostStrokes) = 3
\* the scan is at an on-curve node
AtOnCurveNode ==
    /\ e_pc = "scan" /\ e_shape <= Len(e_layer)
    /\ e_i <= Len(e_layer[e_shape].nodes)
    /\ e_layer[e_shape].nodes[e_i].type # OFFCURVE

\* the primary- and opposite-axis coordinate of the node the scan is at
VisitedPrimary == Primary(e_layer[e_shape].nodes[e_i].pos, e_direction)
VisitedOpposite == Opposite(e_layer[e_shape].nodes[e_i].pos, e_direction)

\* the visited node strictly improves the record (or is the first to set one)
StrictlyImproves ==
    \/ e_record = <<>>
    \/ e_direction \in {"left", "bottom"} /\ RLess(VisitedPrimary, e_record[1])
    \/ e_direction \in {"right", "top"} /\ RLess(e_record[1], VisitedPrimary)

\* the opposite-axis coordinates of the on-curve nodes tied with the record
TiedWithRecord ==
    {Opposite(n.pos, e_direction) :
        n \in {m \in OnCurveNodes : e_record # <<>> /\ Primary(m.pos, e_direction) = e_record[1]}}

\* C24: an on-curve node that strictly improves the record discards the range
\* values and the strokes accumulated so far, a node that does not improve
\* leaves the record as it is, and once all subpaths are exhausted every stroke
\* and both range bounds come from nodes tied with the final record and no run
\* is left in progress.
C24_RecordTracking ==
    /\ [][(AtOnCurveNode /\ StrictlyImproves) =>
            /\ e_record' = <<VisitedPrimary>>
            /\ e_range' = <<VisitedOpposite, VisitedOpposite>>
            /\ e_strokes' = <<>>
            /\ e_run' = <<VisitedOpposite>>]_vars
    /\ [][(AtOnCurveNode /\ ~StrictlyImproves) => e_record' = e_record]_vars
    /\ [](e_pc = "returned" =>
            /\ e_run = <<>>
            /\ \A k \in 1..Len(e_strokes) :
                e_strokes[k] # <<>> /\ StrokeValues(k) \subseteq TiedWithRecord
            /\ \A k \in 1..Len(outermostRange) : outermostRange[k] \in TiedWithRecord
            /\ OnCurveNodes # {} => Len(outermostRange) = 2 /\ Len(e_strokes) >= 1)

\* a finished scan whose first on-curve node set a record that a later node of
\* the first subpath improved, with non-improving nodes in the second subpath
\* and two strokes reported
C24_Witness ==
    /\ e_pc = "returned"
    /\ Len(e_layer) = 2
    /\ OnCurveSeq(1) # <<>> /\ ~TiedNode(OnCurveSeq(1)[1])
    /\ \E k \in 1..Len(OnCurveSeq(1)) : TiedNode(OnCurveSeq(1)[k])
    /\ OnCurveSeq(2) # <<>> /\ ~TiedNode(OnCurveSeq(2)[1])
    /\ Len(outermostStrokes) = 2

-----------------------------------------------------------------------------
(* Properties of grayscale, checked under SpecGray.                        *)

RLessEq(p, q) == p[1] * q[2] <= q[1] * p[2]

\* the layer holds paths of LINE nodes only: polygons
IsPolygonLayer(layer) ==
    \A k \in 1..Len(layer) :
        /\ layer[k].kind = "path" /\ layer[k].nodes # <<>>
        /\ \A j \in 1..Len(layer[k].nodes) : layer[k].nodes[j].type = LINE

\* the signed area of the polygons of the layer, by the shoelace formula
RECURSIVE LayerShoelace(_, _)
LayerShoelace(layer, k) ==
    IF k > Len(layer) THEN Zero
    ELSE RAdd(Shoelace([j \in 1..Len(layer[k].nodes) |-> layer[k].nodes[j].pos]),
              LayerShoelace(layer, k + 1))

\* C25: grayscale(layer) returns a value in the range [0, 1] for every layer.
C25_GrayscaleInUnitRange ==
    g_pc = "returned" => RLessEq(Zero, g_result) /\ RLessEq(g_result, R(1))

\* what does hold: the value returned for a layer of polygons is the absolute
\* signed area of its paths over width * height, and it is never negative
C25_GrayscaleIsAreaRatio ==
    g_pc = "returned" =>
        /\ RLessEq(Zero, g_result)
        /\ IsPolygonLayer(n_layer) =>
            g_result = RDiv(RAbs(LayerShoelace(n_layer, 1)), RMul(g_width, g_height))

(***************************************************************************)
(* C26: the input outline after a normalization                            *)
(***************************************************************************)

\* every path of a layer, and of the layers its components refer to, holds its
\* nodes in the order in which they were given
RECURSIVE LayerInInputOrder(_)
LayerInInputOrder(layer) ==
    \A s \in 1..Len(layer) :
        IF layer[s].kind = "path" THEN IsInputOrder(layer[s].nodes)
        ELSE IF layer[s].kind = "component" /\ layer[s].resolved
             THEN LayerInInputOrder(layer[s].layer)
             ELSE TRUE

\* _path_to_svg_path_data has just returned for the path before n_shape
PathJustReturned ==
    /\ n_pc = "layer" /\ n_shape > 1 /\ n_shape - 1 <= Len(n_layer)
    /\ n_layer[n_shape - 1].kind = "path"

\* C26 (as claimed): normalizing leaves the input outline unchanged: after
\* layer_to_svg or _path_to_svg_path_data returns, every subpath's node
\* sequence holds the same nodes in the same order as before the call.
C26_InputUnchanged ==
    /\ (n_pc = "returned") => LayerInInputOrder(n_layer)
    /\ PathJustReturned => IsInputOrder(n_layer[n_shape - 1].nodes)

\* what does hold: a path that was given with an on-curve node last is left as
\* it was, and one given with r off-curve nodes last is left rotated by r
C26_InputRotatedByTrailingOffcurves ==
    PathJustReturned =>
        \E r \in 0..(Len(n_layer[n_shape - 1].nodes) - 1) :
            /\ IsInputOrder(Unrotated(n_layer[n_shape - 1].nodes, r))
            /\ r = TrailingOffcurves(Unrotated(n_layer[n_shape - 1].nodes, r),
                                     Len(n_layer[n_shape - 1].nodes))

(***************************************************************************)
(* C27: termination of _path_to_svg_path_data                              *)
(***************************************************************************)

\* C27 (as claimed): _path_to_svg_path_data terminates, by returning a result
\* or raising an error, for every finite node sequence whatever the mix of
\* node types: every step of the rotation loop and every step of the node scan
\* brings the loop closer to its end, so both end after finitely many steps.
C27_BothLoopsEnd ==
    [][/\ RotationStep => RotationProgresses
       /\ ScanStep => ScanProgresses]_vars

\* what does hold: the node scan always ends, and the rotation loop ends for
\* every path that has an on-curve node
C27_LoopsEndWithOnCurveNode ==
    [][/\ (RotationStep /\ HasOnCurveNode(Nodes)) => RotationProgresses
       /\ ScanStep => ScanProgresses]_vars

\* and a path whose nodes are all off-curve never leaves the rotation loop
C27_AllOffcurveRotatesForever ==
    [][(n_pc = "rotate" /\ Nodes # <<>> /\ ~HasOnCurveNode(Nodes)) =>
            (n_pc' = "rotate" /\ ~HasOnCurveNode(Nodes'))]_vars

(***************************************************************************)
(* C28: normalizing the same path again.  A caller passes one GSPath to    *)
(* _path_to_svg_path_data several times in a row and keeps the texts, as   *)
(* _layer_to_svg_content keeps them in path_data_parts; the path is the    *)
(* object the earlier calls have left behind.                              *)
(***************************************************************************)

InitRepeat ==
    /\ n_layer \in {<<p>> : p \in AnyPaths \cup OpenPaths}
    /\ n_ascender \in {R(8), R(10)}
    /\ n_scaling \in {R(1), Half}
    /\ n_shape = 1
    /\ n_pc = "layer" /\ n_i = 0 /\ n_parts = <<>> /\ n_path_data_parts = <<>>
    /\ n_component_parts = <<>> /\ n_stack = <<>>
    /\ n_result = <<>> /\ n_exc = ""
    /\ AreaIdle /\ ParseIdle /\ ExtremumIdle /\ GrayIdle

\* the caller passes the path it has just normalized to
\* _path_to_svg_path_data once more
PathAgain ==
    /\ n_pc = "layer" /\ n_shape = 2 /\ Len(n_path_data_parts) < MaxRepeats
    /\ n_shape' = 1
    /\ UNCHANGED <<n_layer, n_ascender, n_scaling, n_pc, n_i, n_parts,
                   n_path_data_parts, n_component_parts, n_stack, n_result, n_exc>>
    /\ NormFrame

NextRepeat ==
    \/ LayerPath \/ PathAgain \/ LayerReturn
    \/ PathRotate \/ PathStart
    \/ ScanLine \/ ScanQuad \/ ScanCubic \/ ScanQSpline \/ ScanAssertFail \/ ScanOnCurve
    \/ PathDone

SpecRepeat == InitRepeat /\ [][NextRepeat]_vars

\* C28: normalizing the same subpath again, after any number of earlier
\* normalizations of it, returns the same command text as the first call.
C28_RepeatedNormalizationSameText ==
    \A k \in 1..Len(n_path_data_parts) : n_path_data_parts[k] = n_path_data_parts[1]

\* a path given with an off-curve node last, which the first call rotated, has
\* been normalized MaxRepeats times
C28_Witness ==
    /\ n_pc = "layer" /\ n_shape = 2
    /\ Len(n_path_data_parts) = MaxRepeats
    /\ ~IsInputOrder(n_layer[1].nodes)
    /\ n_layer[1].nodes[1].type = OFFCURVE

====
